---- MODULE Spec2Model ----
(***************************************************************************)
(* Stratify: segmentation and experiment assignment engine.               *)
(* State machine of the order ledger, the segment membership table, the    *)
(* two per-user cache entries, the order_placed topic and the dormancy job *)
(* store, with the request handlers and background drivers as processes.   *)
(***************************************************************************)
EXTENDS Integers, Sequences, FiniteSets, TLC

(***************************************************************************)
(* Bounds of the model                                                     *)
(***************************************************************************)
MaxOrders == 2
MaxClockMoves == 1

(***************************************************************************)
(* Program constants                                                       *)
(***************************************************************************)
DORMANCY_DAYS == 14
DORMANCY_SECONDS_TEST == 30
TEST_MODE == TRUE
CACHE_TTL == 300
BANNER_MIXTURE_TTL == 86400
BANNER_COUNT == 3
SWEEP_HORIZON_DAYS == 14
SECONDS_PER_DAY == 24 * 60 * 60
NEVER_ORDERED_SECONDS == 999999

Users == {"u1", "u2"}

\* Optional values: Nil is Python's None, Some(v) a present value
Nil == <<>>
Some(v) == <<v>>
NoCity == <<"none", 0>>

(***************************************************************************)
(* Values of rule leaves and of the fact map.  Python bool is an int       *)
(* (True == 1), so booleans are numbers here; strings carry a code that    *)
(* stands for the string and orders like it.                               *)
(***************************************************************************)
Num(n) == <<"n", n>>
Str(k) == <<"s", k>>
Lst(S) == <<"l", S>>

CityHSR == Str(1)

\* Python ordering comparison of two values: "T", "F", or "TE" (TypeError)
PyOrder(op, a, b) ==
    IF a[1] = b[1] /\ a[1] \in {"n", "s"}
    THEN IF op = "gt" THEN (IF a[2] > b[2] THEN "T" ELSE "F")
         ELSE IF op = "gte" THEN (IF a[2] >= b[2] THEN "T" ELSE "F")
         ELSE IF op = "lt" THEN (IF a[2] < b[2] THEN "T" ELSE "F")
         ELSE (IF a[2] <= b[2] THEN "T" ELSE "F")
    ELSE "TE"

\* Python == on two values (never raises)
PyEq(a, b) == a = b

\* Python `a in b`: "T", "F", or "TE" when b is not a container
PyIn(a, b) ==
    IF b[1] = "l" THEN (IF \E x \in b[2] : PyEq(a, x) THEN "T" ELSE "F")
    ELSE "TE"



\* the leaf branch of evaluate: a missing fact is False before the operator is looked at
EvalLeaf(rules, user_stats) ==
    IF rules.field \notin DOMAIN user_stats THEN "F"
    ELSE LET user_value == user_stats[rules.field]
             operator == rules.op
             value == rules.value
         IN  IF operator \in {"gt", "gte", "lt", "lte"} THEN PyOrder(operator, user_value, value)
             ELSE IF operator = "eq" THEN (IF PyEq(user_value, value) THEN "T" ELSE "F")
             ELSE IF operator = "neq" THEN (IF PyEq(user_value, value) THEN "F" ELSE "T")
             ELSE IF operator = "in" THEN PyIn(user_value, value)
             ELSE IF operator = "not_in"
                  THEN (LET r == PyIn(user_value, value)
                        IN  IF r = "T" THEN "F" ELSE IF r = "F" THEN "T" ELSE r)
             ELSE "VE"

\* first exception raised by the list comprehension over the children, if any
FirstRaise(results) ==
    IF \E i \in DOMAIN results : results[i] \in {"VE", "TE"}
    THEN results[CHOOSE i \in DOMAIN results :
                    /\ results[i] \in {"VE", "TE"}
                    /\ \A j \in DOMAIN results : j < i => results[j] \notin {"VE", "TE"}]
    ELSE "ok"

\* evaluate(rules, user_stats): "T", "F", "VE" (ValueError) or "TE" (TypeError)
RECURSIVE evaluate(_, _)
evaluate(rules, user_stats) ==
    IF "operator" \in DOMAIN rules
    THEN LET op == rules.operator
             results == [i \in DOMAIN rules.conditions |-> evaluate(rules.conditions[i], user_stats)]
         IN  IF FirstRaise(results) # "ok" THEN FirstRaise(results)
             ELSE IF op = "AND" THEN (IF \A i \in DOMAIN results : results[i] = "T" THEN "T" ELSE "F")
             ELSE IF op = "OR" THEN (IF \E i \in DOMAIN results : results[i] = "T" THEN "T" ELSE "F")
             ELSE "VE"
    ELSE EvalLeaf(rules, user_stats)

Leaf(f, o, v) == [field |-> f, op |-> o, value |-> v]
Node(o, cs) == [operator |-> o, conditions |-> cs]

(***************************************************************************)
(* Order ledger and the User Stats Provider                                *)
(***************************************************************************)
RECURSIVE SumAmounts(_, _)
SumAmounts(os, idx) ==
    IF idx = {} THEN 0
    ELSE LET i == CHOOSE i \in idx : TRUE IN os[i].amount + SumAmounts(os, idx \ {i})

OrdersOf(os, user_id) == {i \in DOMAIN os : os[i].user_id = user_id}

MaxCreatedAt(os, idx) == CHOOSE t \in {os[i].created_at : i \in idx} : \A i \in idx : os[i].created_at <= t

CountSince(os, idx, cutoff) == Cardinality({i \in idx : os[i].created_at >= cutoff})

\* get_stats with the row `latest` picked by the most-recent-order query
StatsWith(os, user_id, t, latest) ==
    LET idx == OrdersOf(os, user_id)
        total_orders == Cardinality(idx)
        base == [f \in {"total_orders", "order_count_last_15_days", "order_count_last_23_days",
                        "order_count_last_12_days", "ltv", "seconds_since_last_order", "is_new_user"} |->
                   IF f = "total_orders" THEN Num(total_orders)
                   ELSE IF f = "order_count_last_15_days" THEN Num(CountSince(os, idx, t - 15 * SECONDS_PER_DAY))
                   ELSE IF f = "order_count_last_23_days" THEN Num(CountSince(os, idx, t - 23 * SECONDS_PER_DAY))
                   ELSE IF f = "order_count_last_12_days" THEN Num(CountSince(os, idx, t - 12 * SECONDS_PER_DAY))
                   ELSE IF f = "ltv" THEN Num(SumAmounts(os, idx))
                   ELSE IF f = "seconds_since_last_order"
                        THEN (IF idx = {} THEN Num(NEVER_ORDERED_SECONDS) ELSE Num(t - MaxCreatedAt(os, idx)))
                   ELSE (IF total_orders = 0 THEN Num(1) ELSE Num(0))]
    IN  IF latest = 0 \/ os[latest].city = NoCity THEN base
        ELSE [f \in DOMAIN base \cup {"city"} |-> IF f = "city" THEN os[latest].city ELSE base[f]]

\* the fact maps get_stats may return at time t; ORDER BY created_at DESC ... first(): among
\* equal timestamps the store may return any row
get_stats(os, user_id, t) ==
    LET idx == OrdersOf(os, user_id)
    IN  IF idx = {} THEN {StatsWith(os, user_id, t, 0)}
        ELSE {StatsWith(os, user_id, t, l) : l \in {i \in idx : os[i].created_at = MaxCreatedAt(os, idx)}}


(***************************************************************************)
(* Persistent store, cache, topic, job store and processes                 *)
(***************************************************************************)
Readers == {"r1"}
Admins == {"a1", "a2"}
Placers == {"p1", "p2"}
Amounts == {100}
Cities == {CityHSR}

VARIABLES
    now,          \* datetime.utcnow(), in seconds
    clockMoves,   \* number of clock advances so far
    orders,       \* table orders: sequence of rows, orderID = index
    segments,     \* table segments
    experiments,  \* table experiments
    links,        \* table experiment_segments: <<experimentID, segmentID>>
    membership,   \* table user_segment_memberships: <<user_id, segmentID>>, committed rows
    expCache,     \* redis user:{id}:experiments
    mixCache,     \* redis user:{id}:banner_mixture
    topic,        \* kafka topic order_placed
    offset,       \* consumer position in the topic
    jobs,         \* APScheduler job store
    rd,           \* GET /users/{id}/experiments requests
    po,           \* POST /orders and /test/orders/dormancy requests
    cons,         \* consumer loop
    dj,           \* running check_user_dormancy jobs, per job key
    cacheMem,     \* history: membership the cached experiment list was computed from
    cacheOld,     \* history: the cached list predates a consumer run that changed membership
    lastMatched,  \* history: matched list returned by the latest committed resolver run, per user
    covered,      \* history: orders included in the stats snapshot of a committed resolver run
    rivals,       \* history: matched lists of resolver runs that overlapped for the same user
    resolved,     \* history: users for whom a resolver run has committed
    assignCall,   \* a call of assign_variant on its own: arguments, first and latest result
    evalCall,     \* a call of evaluate on its own: arguments and result
    adm,          \* POST /segments and POST /experiments requests
    iv,           \* DELETE /users/{id}/cache request
    sw,           \* run of cron/refresh_segments.py
    cacheUp       \* whether the cache server answers

vars == <<now, clockMoves, orders, segments, experiments, links, membership, expCache, mixCache,
          topic, offset, jobs, rd, po, cons, dj, cacheMem, cacheOld, lastMatched, covered, rivals, resolved,
          assignCall, evalCall, adm, iv, sw, cacheUp>>

\* the variables of the drivers that only some specifications run
otherVars == <<assignCall, evalCall, adm, iv, sw, cacheUp>>

histVars == <<cacheMem, cacheOld, lastMatched, covered, rivals, resolved, otherVars>>

storeVars == <<orders, segments, experiments, links>>

(***************************************************************************)
(* Segment and experiment definitions of output/setup.py used as the       *)
(* populated store                                                         *)
(***************************************************************************)
LightUserRules == Node("AND", <<Leaf("total_orders", "gte", Num(1)), Leaf("total_orders", "lte", Num(5))>>)

SeededSegments ==
    { [segmentID |-> 1, name |-> "new_user", description |-> "User who has never placed an order",
       rules |-> Node("AND", <<Leaf("is_new_user", "eq", Num(1))>>)],
      [segmentID |-> 2, name |-> "light_user", description |-> "User with 1-5 lifetime orders",
       rules |-> LightUserRules] }

SeededExperiments ==
    { [experimentID |-> 1, name |-> "new_user_onboarding_banners", status |-> "active",
       variants |-> << [name |-> "banners_1_2_3", banners |-> <<1, 2, 3>>, weight |-> 50],
                       [name |-> "banners_4_5_6", banners |-> <<4, 5, 6>>, weight |-> 50] >>],
      [experimentID |-> 2, name |-> "light_user_engagement_banners", status |-> "active",
       variants |-> << [name |-> "banners_3_4_6", banners |-> <<3, 4, 6>>, weight |-> 100] >>] }

SeededLinks == { <<1, 1>>, <<2, 2>> }

(***************************************************************************)
(* Segment Resolver                                                        *)
(***************************************************************************)
MembershipOf(rows, user_id) == {row[2] : row \in {x \in rows : x[1] = user_id}}

\* the lazy-refresh predicate called by the read path
has_segment_memberships(rows, user_id) == MembershipOf(rows, user_id) # {}

\* the loop over get_all_segments(): the matched ids, or the exception evaluate raised
MatchSegments(segs, stats) ==
    IF \E s \in segs : evaluate(s.rules, stats) \in {"VE", "TE"}
    THEN [ok |-> FALSE, matched |-> {}]
    ELSE [ok |-> TRUE, matched |-> {s.segmentID : s \in {x \in segs : evaluate(x.rules, stats) = "T"}}]

RowsVisibleAfterDelete_autocommit(rows, user_id) == {x \in rows : x[1] # user_id}

\* rows other sessions see after the DELETE of an open transaction: unchanged until commit
RowsVisibleAfterDelete(rows, user_id) == rows

ReplaceMembership_toggle(rows, user_id, matched) ==
    {x \in rows : x[1] # user_id \/ x[2] \notin matched}
        \cup {<<user_id, seg_id>> : seg_id \in {m \in matched : <<user_id, m>> \notin rows}}

ReplaceMembership_insertOnly(rows, user_id, matched) ==
    rows \cup {<<user_id, seg_id>> : seg_id \in matched}

\* commit of delete-old + insert-new
ReplaceMembership(rows, user_id, matched) ==
    {x \in rows : x[1] # user_id} \cup {<<user_id, seg_id>> : seg_id \in matched}

(***************************************************************************)
(* Variant Assigner and Experiment Resolver                                *)
(***************************************************************************)

\* stand-in for int(md5("{user_id}:{experimentID}").hexdigest(), 16) % 100
md5_bucket(user_id, experimentID) == (37 * (IF user_id = "u1" THEN 1 ELSE 2) + 61 * experimentID) % 100

RECURSIVE Cumulative(_, _)
Cumulative(variants, i) == IF i = 0 THEN 0 ELSE Cumulative(variants, i - 1) + variants[i].weight

AssignWithBucket_orEqual(bucket, variants) ==
    IF \E i \in DOMAIN variants : bucket <= Cumulative(variants, i)
    THEN variants[CHOOSE i \in DOMAIN variants :
                     /\ bucket <= Cumulative(variants, i)
                     /\ \A j \in DOMAIN variants : j < i => ~(bucket <= Cumulative(variants, j))]
    ELSE variants[Len(variants)]

\* the loop `cumulative += weight; if bucket < cumulative: return variant`, else variants[-1]
AssignWithBucket(bucket, variants) ==
    IF \E i \in DOMAIN variants : bucket < Cumulative(variants, i)
    THEN variants[CHOOSE i \in DOMAIN variants :
                     /\ bucket < Cumulative(variants, i)
                     /\ \A j \in DOMAIN variants : j < i => ~(bucket < Cumulative(variants, j))]
    ELSE variants[Len(variants)]

assign_variant(user_id, experiment) ==
    AssignWithBucket(md5_bucket(user_id, experiment.experimentID), experiment.variants)

_get_active_experiments_with_segments_anyStatus(exps) == exps

\* query(Experiment).options(joinedload(Experiment.segments)).filter(status == "active").all()
_get_active_experiments_with_segments(exps) == {e \in exps : e.status = "active"}

TargetSegments(lnk, experimentID) == {l[2] : l \in {x \in lnk : x[1] = experimentID}}

\* rows in the order the query returns them; the model takes increasing experimentID
RECURSIVE RowsInOrder(_)
RowsInOrder(S) ==
    IF S = {} THEN <<>>
    ELSE LET e == CHOOSE e \in S : \A f \in S : e.experimentID <= f.experimentID
         IN  <<e>> \o RowsInOrder(S \ {e})

MatchedExperiments(user_id, rows, exps, lnk) ==
    LET segmentIDs == MembershipOf(rows, user_id)
    IN  RowsInOrder({e \in _get_active_experiments_with_segments(exps) :
                        TargetSegments(lnk, e.experimentID) \cap segmentIDs # {}})

get_user_experiments(user_id, rows, exps, lnk) ==
    LET m == MatchedExperiments(user_id, rows, exps, lnk)
    IN  [i \in DOMAIN m |-> [experimentID |-> m[i].experimentID, name |-> m[i].name,
                             variant |-> assign_variant(user_id, m[i]).name]]

get_banner_experiments(user_id, rows, exps, lnk) ==
    LET m == MatchedExperiments(user_id, rows, exps, lnk)
        idx == {i \in DOMAIN m : "banners" \in DOMAIN assign_variant(user_id, m[i])}
        pick == RowsInOrder({m[i] : i \in idx})
    IN  [i \in DOMAIN pick |-> [experimentID |-> pick[i].experimentID, name |-> pick[i].name,
                                variant_name |-> assign_variant(user_id, pick[i]).name,
                                banners |-> assign_variant(user_id, pick[i]).banners]]

RECURSIVE SumWeights(_, _)
SumWeights(variants, i) == IF i = 0 THEN 0 ELSE SumWeights(variants, i - 1) + variants[i].weight

\* a fresh primary key (uuid4 in the code): the smallest number above the ones in use
NewExperimentID(exps) ==
    IF exps = {} THEN 1
    ELSE 1 + (CHOOSE m \in {e.experimentID : e \in exps} : \A e \in exps : e.experimentID <= m)

create_experiment_unchecked(exps, lnk, name, variants, segmentIDs, status) ==
    LET existing == {e \in exps : e.name = name}
        experiment == IF existing # {} THEN CHOOSE e \in existing : TRUE
                      ELSE [experimentID |-> NewExperimentID(exps), name |-> name,
                            status |-> status, variants |-> variants]
    IN  [raised |-> "none",
         experiments |-> exps \cup {experiment},
         links |-> lnk \cup {<<experiment.experimentID, seg_id>> : seg_id \in segmentIDs},
         experimentID |-> experiment.experimentID]

create_experiment_noRelink(exps, lnk, name, variants, segmentIDs, status) ==
    IF SumWeights(variants, Len(variants)) # 100
    THEN [raised |-> "ValueError", experiments |-> exps, links |-> lnk, experimentID |-> 0]
    ELSE LET existing == {e \in exps : e.name = name}
             experiment == IF existing # {} THEN CHOOSE e \in existing : TRUE
                           ELSE [experimentID |-> NewExperimentID(exps), name |-> name,
                                 status |-> status, variants |-> variants]
         IN  [raised |-> "none",
              experiments |-> exps \cup {experiment},
              links |-> IF existing # {} THEN lnk
                        ELSE lnk \cup {<<experiment.experimentID, seg_id>> : seg_id \in segmentIDs},
              experimentID |-> experiment.experimentID]

\* create_experiment: ValueError and nothing written when the weights do not sum to 100;
\* otherwise the new row, or the existing row of that name after IntegrityError, and its links
create_experiment(exps, lnk, name, variants, segmentIDs, status) ==
    IF SumWeights(variants, Len(variants)) # 100
    THEN [raised |-> "ValueError", experiments |-> exps, links |-> lnk, experimentID |-> 0]
    ELSE LET existing == {e \in exps : e.name = name}
             experiment == IF existing # {} THEN CHOOSE e \in existing : TRUE
                           ELSE [experimentID |-> NewExperimentID(exps), name |-> name,
                                 status |-> status, variants |-> variants]
         IN  [raised |-> "none",
              experiments |-> exps \cup {experiment},
              links |-> lnk \cup {<<experiment.experimentID, seg_id>> : seg_id \in segmentIDs},
              experimentID |-> experiment.experimentID]

NewSegmentID(segs) ==
    IF segs = {} THEN 1
    ELSE 1 + (CHOOSE m \in {x.segmentID : x \in segs} : \A x \in segs : x.segmentID <= m)

create_segment_insert_noUnique(segs, name, description, rules) ==
    [raised |-> "none", segmentID |-> NewSegmentID(segs),
     segments |-> segs \cup {[segmentID |-> NewSegmentID(segs), name |-> name,
                              description |-> description, rules |-> rules]}]

\* db.add(segment); db.commit(): the row is stored unless the unique index on name rejects it
create_segment_insert(segs, name, description, rules) ==
    IF \E x \in segs : x.name = name
    THEN [raised |-> "IntegrityError", segmentID |-> 0, segments |-> segs]
    ELSE [raised |-> "none", segmentID |-> NewSegmentID(segs),
          segments |-> segs \cup {[segmentID |-> NewSegmentID(segs), name |-> name,
                                   description |-> description, rules |-> rules]}]

\* query(Segment).filter(Segment.name == name).first(): ids of the rows it may return
create_segment_existing(segs, name) == {x.segmentID : x \in {y \in segs : y.name = name}}

(***************************************************************************)
(* Banner mixture                                                          *)
(***************************************************************************)
Range(s) == {s[i] : i \in DOMAIN s}

RECURSIVE Sorted(_)
Sorted(S) ==
    IF S = {} THEN <<>>
    ELSE LET m == CHOOSE m \in S : \A x \in S : m <= x IN <<m>> \o Sorted(S \ {m})

BannerPool(banner_experiments) == UNION {Range(banner_experiments[i].banners) : i \in DOMAIN banner_experiments}

generate_banner_mixture_wholePool(available_banners, target_count) == {Sorted(available_banners)}

\* the lists random.sample + sorted may return
generate_banner_mixture(available_banners, target_count) ==
    IF available_banners = {} THEN {<<>>}
    ELSE {Sorted(S) : S \in {T \in SUBSET available_banners :
                                Cardinality(T) = (IF target_count < Cardinality(available_banners)
                                                  THEN target_count ELSE Cardinality(available_banners))}}

SourceInfo(banner_experiments) ==
    [i \in DOMAIN banner_experiments |->
        [experiment_id |-> banner_experiments[i].experimentID, name |-> banner_experiments[i].name,
         variant |-> banner_experiments[i].variant_name,
         contributed_banners |-> banner_experiments[i].banners]]

MixtureRecord(banners, source_experiments, t) ==
    [banners |-> banners, assigned_at |-> t, expires_at |-> t + BANNER_MIXTURE_TTL,
     ttl_seconds |-> BANNER_MIXTURE_TTL, source_experiments |-> source_experiments]

(***************************************************************************)
(* Cache: SETEX / GET / DELETE                                             *)
(***************************************************************************)
\* GET: the stored value if the key exists and has not expired
CacheGet(cache, user_id, t) ==
    IF cache[user_id] # Nil /\ t < cache[user_id][1].expires_at THEN Some(cache[user_id][1].value) ELSE Nil

CacheSetex(cache, user_id, ttl, value, t) ==
    [cache EXCEPT ![user_id] = Some([value |-> value, expires_at |-> t + ttl])]

CacheDelete_keeps(cache, user_id) == cache

CacheDelete_flush(cache, user_id) == [u \in DOMAIN cache |-> Nil]

CacheDelete(cache, user_id) == [cache EXCEPT ![user_id] = Nil]

(***************************************************************************)
(* Job store                                                               *)
(***************************************************************************)
JobId(user_id) == <<"dormancy", user_id>>

add_job_keepExisting(store, id, run_date, args) ==
    store \cup {[id |-> id, run_date |-> run_date, args |-> args]}

\* scheduler.add_job(..., id=job_id, replace_existing=True)
add_job(store, id, run_date, args) ==
    {j \in store : j.id # id} \cup {[id |-> id, run_date |-> run_date, args |-> args]}


(***************************************************************************)
(* Initial state: the store populated by output/setup.py, no order placed, *)
(* nothing cached, every handler idle                                      *)
(***************************************************************************)
\* datetime.isoformat() and datetime.fromisoformat(): text of a timestamp and its parse
isoformat(t) == <<"iso", t>>
fromisoformat(text) == text[2]

NoRun == [matched |-> {}, stats |-> <<>>, seen |-> 0]
IdleReader == [pc |-> "idle", user |-> "u1", run |-> NoRun, mem |-> {}, exps |-> <<>>,
               mix |-> Nil, source |-> "none", old |-> FALSE, after |-> {}, sawOpen |-> {},
               hitDiffers |-> FALSE]
IdlePlacer == [pc |-> "idle", user |-> "u1", orderID |-> 0, created_at |-> 0, endpoint |-> "prod",
               delay |-> 0, expDirty |-> FALSE, mixDirty |-> FALSE]
IdleConsumer == [pc |-> "idle", user |-> "u1", run |-> NoRun, redelivered |-> FALSE]
\* wrote records whether the check changed the user's membership rows or deleted a cache entry
IdleJob == [pc |-> "idle", order_placed_at |-> isoformat(0), run |-> NoRun, branch |-> "none",
            expDirty |-> FALSE, wrote |-> FALSE]
\* a request of POST /segments or POST /experiments: the name it was given, what it raised, the
\* id of the row it returned; existed records whether a row of that name was stored when it began
IdleAdmin == [pc |-> "idle", op |-> "none", name |-> "", raised |-> "none", response |-> 0,
              existed |-> FALSE]
\* hadExp records whether the experiment key held a live entry when the request deleted it
IdleInvalidation == [pc |-> "idle", user |-> "u1", expDirty |-> FALSE, hadExp |-> FALSE]
\* a sweep: the users it selected, the ones still to do, the one in hand and its resolver run
IdleSweep == [pc |-> "idle", user_ids |-> {}, todo |-> {}, user |-> "u1", run |-> NoRun,
              expDirty |-> FALSE]

\* the tables and the processes around a given ledger, topic, job store and clock
InitAt(segs, exps, lnk, os, tp, js, t) ==
    /\ now = t
    /\ clockMoves = 0
    /\ orders = os
    /\ segments = segs
    /\ experiments = exps
    /\ links = lnk
    /\ membership = {}
    /\ expCache = [u \in Users |-> Nil]
    /\ mixCache = [u \in Users |-> Nil]
    /\ topic = tp
    /\ offset = 0
    /\ jobs = js
    /\ rd = [r \in Readers |-> IdleReader]
    /\ po = [p \in Placers |-> IdlePlacer]
    /\ cons = IdleConsumer
    /\ dj = [u \in Users |-> IdleJob]
    /\ cacheMem = [u \in Users |-> {}]
    /\ cacheOld = [u \in Users |-> FALSE]
    /\ lastMatched = [u \in Users |-> {}]
    /\ covered = {}
    /\ rivals = [u \in Users |-> {}]
    /\ resolved = {}
    /\ adm = [a \in Admins |-> IdleAdmin]
    /\ iv = IdleInvalidation
    /\ sw = IdleSweep
    /\ cacheUp = TRUE

InitStore(segs, exps, lnk) ==
    InitAt(segs, exps, lnk, <<>>, <<>>, {}, 0) /\ assignCall = Nil /\ evalCall = Nil

Init == InitStore(SeededSegments, SeededExperiments, SeededLinks)

\* the store of the end-to-end scenario: only the segment new_user and its experiment exist
InitNewUserOnly ==
    InitStore({x \in SeededSegments : x.name = "new_user"},
              {e \in SeededExperiments : e.experimentID = 1}, {<<1, 1>>})

\* bodies of POST /experiments used by the model
ExperimentPayloads ==
    { [name |-> "weekend_banners", segmentIDs |-> {2},
       variants |-> << [name |-> "banners_7_8", banners |-> <<7, 8>>, weight |-> 100] >>],
      [name |-> "pricing_test", segmentIDs |-> {1},
       variants |-> << [name |-> "banners_9", banners |-> <<9>>, weight |-> 100] >>],
      [name |-> "festive_banners", segmentIDs |-> {1, 2},
       variants |-> << [name |-> "banners_5_6_7", banners |-> <<5, 6, 7>>, weight |-> 50],
                       [name |-> "banners_6_7_8_9", banners |-> <<6, 7, 8, 9>>, weight |-> 50] >>],
      [name |-> "broken_weights", segmentIDs |-> {2},
       variants |-> << [name |-> "a", banners |-> <<9>>, weight |-> 40],
                       [name |-> "b", banners |-> <<9>>, weight |-> 40] >>] }

\* a catalog without a banner variant in an active experiment: a draft banner experiment on both
\* segments and an active experiment whose variants carry no banners
CatalogExperiments ==
    { [experimentID |-> 1, name |-> "draft_banners", status |-> "draft",
       variants |-> << [name |-> "banners_1_2_3", banners |-> <<1, 2, 3>>, weight |-> 100] >>],
      [experimentID |-> 2, name |-> "pricing_test", status |-> "active",
       variants |-> << [name |-> "control", weight |-> 50], [name |-> "treatment", weight |-> 50] >>] }


InitCatalog == InitStore(SeededSegments, CatalogExperiments, { <<1, 1>>, <<1, 2>>, <<2, 1>>, <<2, 2>> })

\* further bodies of POST /experiments: a stored name with other variants and more segments, and
\* a stored name with weights that do not sum to 100
AdminExperimentPayloads ==
    ExperimentPayloads \cup
    { [name |-> "weekend_banners", segmentIDs |-> {1, 2},
       variants |-> << [name |-> "banners_9", banners |-> <<9>>, weight |-> 100] >>],
      [name |-> "weekend_banners", segmentIDs |-> {1},
       variants |-> << [name |-> "a", banners |-> <<9>>, weight |-> 60],
                       [name |-> "b", banners |-> <<9>>, weight |-> 60] >>] }

\* bodies of POST /segments: a stored name with other rules, and a new name with two bodies
SegmentPayloads ==
    { [name |-> "new_user", description |-> "again", rules |-> LightUserRules],
      [name |-> "city_hsr", description |-> "Users ordering in HSR",
       rules |-> Node("OR", <<Leaf("city", "eq", CityHSR)>>)],
      [name |-> "city_hsr", description |-> "Whitefield", rules |-> Node("OR", <<Leaf("city", "eq", Str(2))>>)] }

\* arguments of assign_variant called on its own: variant lists whose cumulative weights meet,
\* pass and stay under the buckets of these users and ids, one of them with a zero weight
InitAssign ==
    LET AssignVariantLists == { << [name |-> "a", weight |-> 50], [name |-> "b", weight |-> 50] >>,
      << [name |-> "a", weight |-> 20], [name |-> "b", weight |-> 80] >>,
      << [name |-> "a", weight |-> 21], [name |-> "b", weight |-> 79] >>,
      << [name |-> "a", weight |-> 10], [name |-> "b", weight |-> 10] >>,
      << [name |-> "a", weight |-> 3], [name |-> "b", weight |-> 0], [name |-> "c", weight |-> 97] >>,
      << [name |-> "a", weight |-> 40], [name |-> "b", weight |-> 40], [name |-> "c", weight |-> 19] >>,
      << [name |-> "a", weight |-> 100] >> }
    IN  /\ InitAt(SeededSegments, SeededExperiments, SeededLinks, <<>>, <<>>, {}, 0)
        /\ assignCall \in
              { [user |-> u, experiment |-> [experimentID |-> id, variants |-> vs], first |-> Nil, latest |-> Nil] :
                  u \in Users, id \in 1 .. 6, vs \in AssignVariantLists }
        /\ evalCall = Nil

AdvanceTime(d) ==
    /\ clockMoves < MaxClockMoves
    /\ now' = now + d
    /\ clockMoves' = clockMoves + 1
    /\ UNCHANGED <<storeVars, membership, expCache, mixCache, topic, offset, jobs, rd, po, cons, dj, histVars>>

(***************************************************************************)
(* refresh_user_segments, in two steps: everything up to the DELETE, then  *)
(* the inserts and the commit                                              *)
(***************************************************************************)
\* outcomes of the first step: the run record with the matched list, or a failure
RefreshBegin(user_id) ==
    { LET m == MatchSegments(segments, stats)
      IN  [ok |-> m.ok, run |-> [matched |-> m.matched, stats |-> stats, seen |-> Len(orders)]]
      : stats \in get_stats(orders, user_id, now) }

\* the committed rows after the first step of a run that did not fail
RowsAfterBegin(user_id, ok) == IF ok THEN RowsVisibleAfterDelete(membership, user_id) ELSE membership

\* resolver runs of user_id that are between their DELETE and their commit
OpenRuns(user_id) ==
    {<<"rd", r, rd[r].run.matched>> : r \in {x \in Readers : rd[x].pc = "refresh_commit" /\ rd[x].user = user_id}}
    \cup (IF cons.pc = "refresh_commit" /\ cons.user = user_id THEN {<<"cons", "c", cons.run.matched>>} ELSE {})
    \cup (IF dj[user_id].pc = "refresh_commit" THEN {<<"dj", user_id, dj[user_id].run.matched>>} ELSE {})
    \cup (IF sw.pc = "refresh_commit" /\ sw.user = user_id THEN {<<"sw", "s", sw.run.matched>>} ELSE {})

\* effect of the commit on the store and on the history of runs
RefreshCommit(user_id, run) ==
    /\ membership' = ReplaceMembership(membership, user_id, run.matched)
    /\ lastMatched' = [lastMatched EXCEPT ![user_id] = run.matched]
    /\ covered' = covered \cup {i \in OrdersOf(orders, user_id) : i <= run.seen}
    /\ rivals' = [rivals EXCEPT ![user_id] =
                     IF Cardinality(OpenRuns(user_id)) >= 2 THEN @ \cup {o[3] : o \in OpenRuns(user_id)} ELSE @]
    /\ resolved' = resolved \cup {user_id}

(***************************************************************************)
(* Effects of a cache write on the history kept with place_order requests  *)
(***************************************************************************)
\* marks the requests of place_order that already deleted the experiment key / the mixture key
\* of user_id
NoteExpWrite(user_id) ==
    [p \in Placers |->
        IF po[p].user = user_id /\ po[p].pc \in {"invalidate_mix", "publish", "schedule", "done"}
        THEN [po[p] EXCEPT !.expDirty = TRUE] ELSE po[p]]
NoteMixWrite(user_id) ==
    [p \in Placers |->
        IF po[p].user = user_id /\ po[p].pc \in {"publish", "schedule", "done"}
        THEN [po[p] EXCEPT !.mixDirty = TRUE] ELSE po[p]]

(***************************************************************************)
(* GET /users/{user_id}/experiments                                        *)
(***************************************************************************)
\* history: the completed place_order requests of user_id with no cache write since their invalidation
CleanPlacers(user_id) ==
    {p \in Placers : po[p].pc = "done" /\ po[p].user = user_id /\ ~po[p].expDirty /\ ~po[p].mixDirty}

ReadCacheCheck_alwaysMiss(r, user_id) ==
    /\ rd[r].pc \in {"idle", "done"}
    /\ rd' = [rd EXCEPT ![r] = [IdleReader EXCEPT !.pc = "ensure_segments", !.user = user_id, !.source = "db",
                                                  !.after = CleanPlacers(user_id)]]
    /\ UNCHANGED <<now, clockMoves, storeVars, membership, expCache, mixCache, topic, offset, jobs,
                   po, cons, dj, histVars>>

\* get_user_experiments_cache and the branch on its result
ReadCacheCheck(r, user_id) ==
    /\ rd[r].pc \in {"idle", "done"}
    /\ cacheUp
    /\ LET cached == CacheGet(expCache, user_id, now)
       IN  rd' = [rd EXCEPT ![r] =
                    IF cached # Nil
                    THEN [IdleReader EXCEPT !.pc = "hit_mix", !.user = user_id, !.exps = cached[1],
                                            !.source = "cache", !.mem = cacheMem[user_id],
                                            !.old = cacheOld[user_id], !.after = CleanPlacers(user_id)]
                    ELSE [IdleReader EXCEPT !.pc = "ensure_segments", !.user = user_id, !.source = "db",
                                            !.after = CleanPlacers(user_id)]]
    /\ UNCHANGED <<now, clockMoves, storeVars, membership, expCache, mixCache, topic, offset, jobs,
                   po, cons, dj, histVars>>

ReadEnsureSegments_always(r) ==
    /\ rd[r].pc = "ensure_segments"
    /\ rd' = [rd EXCEPT ![r].pc = "refresh_begin"]
    /\ UNCHANGED <<now, clockMoves, storeVars, membership, expCache, mixCache, topic, offset, jobs,
                   po, cons, dj, histVars>>

\* if not seg_service.has_segment_memberships(user_id)
ReadEnsureSegments(r) ==
    /\ rd[r].pc = "ensure_segments"
    /\ rd' = [rd EXCEPT ![r].pc = IF has_segment_memberships(membership, rd[r].user)
                                  THEN "resolve" ELSE "refresh_begin"]
    /\ UNCHANGED <<now, clockMoves, storeVars, membership, expCache, mixCache, topic, offset, jobs,
                   po, cons, dj, histVars>>

ReadRefreshBegin(r) ==
    /\ rd[r].pc = "refresh_begin"
    /\ \E b \in RefreshBegin(rd[r].user) :
          /\ rd' = [rd EXCEPT ![r] = IF b.ok THEN [@ EXCEPT !.pc = "refresh_commit", !.run = b.run]
                                      ELSE [@ EXCEPT !.pc = "done", !.source = "error"]]
          /\ membership' = RowsAfterBegin(rd[r].user, b.ok)
    /\ UNCHANGED <<now, clockMoves, storeVars, expCache, mixCache, topic, offset, jobs,
                   po, cons, dj, histVars>>

ReadRefreshCommit(r) ==
    /\ rd[r].pc = "refresh_commit"
    /\ RefreshCommit(rd[r].user, rd[r].run)
    /\ rd' = [rd EXCEPT ![r].pc = "resolve", ![r].run = NoRun]
    /\ UNCHANGED <<now, clockMoves, storeVars, expCache, mixCache, topic, offset, jobs,
                   po, cons, dj, cacheMem, cacheOld, otherVars>>

\* exp_service.get_user_experiments(user_id)
ReadResolve(r) ==
    /\ rd[r].pc = "resolve"
    /\ rd' = [rd EXCEPT ![r].pc = "gen_mix",
                        ![r].exps = get_user_experiments(rd[r].user, membership, experiments, links),
                        ![r].mem = MembershipOf(membership, rd[r].user),
                        ![r].old = FALSE,
                        ![r].sawOpen = {o[3] : o \in OpenRuns(rd[r].user)}]
    /\ UNCHANGED <<now, clockMoves, storeVars, membership, expCache, mixCache, topic, offset, jobs,
                   po, cons, dj, histVars>>

ReadMixtureGet_cachesAbsent(r) ==
    /\ rd[r].pc \in {"hit_mix", "gen_mix"}
    /\ LET user_id == rd[r].user
           cached_mixture == CacheGet(mixCache, user_id, now)
           banner_experiments == get_banner_experiments(user_id, membership, experiments, links)
           after == IF rd[r].pc = "hit_mix" THEN "done" ELSE "populate"
       IN  IF cached_mixture # Nil
           THEN rd' = [rd EXCEPT ![r].pc = after, ![r].mix = cached_mixture] /\ mixCache' = mixCache
           ELSE IF banner_experiments = <<>>
           THEN /\ rd' = [rd EXCEPT ![r].pc = after, ![r].mix = Nil]
                /\ mixCache' = CacheSetex(mixCache, user_id, BANNER_MIXTURE_TTL,
                                          MixtureRecord(<<>>, <<>>, now), now)
           ELSE /\ mixCache' = mixCache
                /\ \E selected_banners \in generate_banner_mixture(BannerPool(banner_experiments), BANNER_COUNT) :
                      rd' = [rd EXCEPT ![r].pc = IF rd[r].pc = "hit_mix" THEN "hit_mix_set" ELSE "gen_mix_set",
                                       ![r].mix = Some([banners |-> selected_banners,
                                                        source_experiments |-> SourceInfo(banner_experiments)])]
    /\ UNCHANGED <<now, clockMoves, storeVars, membership, expCache, topic, offset, jobs,
                   po, cons, dj, histVars>>

ReadMixtureGet_recomputes(r) ==
    /\ rd[r].pc \in {"hit_mix", "gen_mix"}
    /\ LET user_id == rd[r].user
           banner_experiments == get_banner_experiments(user_id, membership, experiments, links)
           after == IF rd[r].pc = "hit_mix" THEN "done" ELSE "populate"
       IN  IF banner_experiments = <<>>
           THEN rd' = [rd EXCEPT ![r].pc = after, ![r].mix = Nil]
           ELSE \E selected_banners \in generate_banner_mixture(BannerPool(banner_experiments), BANNER_COUNT) :
                   rd' = [rd EXCEPT ![r].pc = IF rd[r].pc = "hit_mix" THEN "hit_mix_set" ELSE "gen_mix_set",
                                    ![r].mix = Some([banners |-> selected_banners,
                                                     source_experiments |-> SourceInfo(banner_experiments)])]
    /\ UNCHANGED <<now, clockMoves, storeVars, membership, expCache, mixCache, topic, offset, jobs,
                   po, cons, dj, histVars>>

\* generate_user_banner_mixture up to the cache write: cache check, banner experiments, draw
ReadMixtureGet(r) ==
    /\ rd[r].pc \in {"hit_mix", "gen_mix"}
    /\ cacheUp
    /\ LET user_id == rd[r].user
           cached_mixture == CacheGet(mixCache, user_id, now)
           banner_experiments == get_banner_experiments(user_id, membership, experiments, links)
           after == IF rd[r].pc = "hit_mix" THEN "done" ELSE "populate"
       IN  IF cached_mixture # Nil
           THEN rd' = [rd EXCEPT ![r].pc = after, ![r].mix = cached_mixture,
                                 ![r].hitDiffers = cached_mixture[1].source_experiments
                                                     # SourceInfo(banner_experiments)]
           ELSE IF banner_experiments = <<>>
           THEN rd' = [rd EXCEPT ![r].pc = after, ![r].mix = Nil]
           ELSE \E selected_banners \in generate_banner_mixture(BannerPool(banner_experiments), BANNER_COUNT) :
                   rd' = [rd EXCEPT ![r].pc = IF rd[r].pc = "hit_mix" THEN "hit_mix_set" ELSE "gen_mix_set",
                                    ![r].mix = Some([banners |-> selected_banners,
                                                     source_experiments |-> SourceInfo(banner_experiments)])]
    /\ UNCHANGED <<now, clockMoves, storeVars, membership, expCache, mixCache, topic, offset, jobs,
                   po, cons, dj, histVars>>

\* set_banner_mixture_cache
ReadMixtureSet(r) ==
    /\ rd[r].pc \in {"hit_mix_set", "gen_mix_set"}
    /\ cacheUp
    /\ LET user_id == rd[r].user
           mixture == MixtureRecord(rd[r].mix[1].banners, rd[r].mix[1].source_experiments, now)
       IN  /\ mixCache' = CacheSetex(mixCache, user_id, BANNER_MIXTURE_TTL, mixture, now)
           /\ rd' = [rd EXCEPT ![r].pc = IF rd[r].pc = "hit_mix_set" THEN "done" ELSE "populate",
                               ![r].mix = Some(mixture)]
           /\ po' = NoteMixWrite(user_id)
    /\ UNCHANGED <<now, clockMoves, storeVars, membership, expCache, topic, offset, jobs,
                   cons, dj, histVars>>

\* set_user_experiments_cache and return; history: the write is noted with every invalidator
\* of the user that is past its deletion of the experiment key
ReadPopulate(r) ==
    /\ rd[r].pc = "populate"
    /\ cacheUp
    /\ expCache' = CacheSetex(expCache, rd[r].user, CACHE_TTL, rd[r].exps, now)
    /\ cacheMem' = [cacheMem EXCEPT ![rd[r].user] = rd[r].mem]
    /\ cacheOld' = [cacheOld EXCEPT ![rd[r].user] = rd[r].old]
    /\ rd' = [rd EXCEPT ![r].pc = "done"]
    /\ po' = NoteExpWrite(rd[r].user)
    /\ iv' = IF iv.pc = "invalidate_mix" /\ iv.user = rd[r].user THEN [iv EXCEPT !.expDirty = TRUE] ELSE iv
    /\ dj' = [u \in Users |-> IF u = rd[r].user /\ dj[u].pc = "invalidate_mix"
                               THEN [dj[u] EXCEPT !.expDirty = TRUE] ELSE dj[u]]
    /\ sw' = IF sw.pc = "invalidate_mix" /\ sw.user = rd[r].user THEN [sw EXCEPT !.expDirty = TRUE] ELSE sw
    /\ UNCHANGED <<now, clockMoves, storeVars, membership, mixCache, topic, offset, jobs, cons,
                   lastMatched, covered, rivals, resolved, assignCall, evalCall, adm, cacheUp>>

\* client.get raises while the cache server is down: the request ends with the exception
ReadCacheCheckFails(r, user_id) ==
    /\ rd[r].pc \in {"idle", "done"}
    /\ ~cacheUp
    /\ rd' = [rd EXCEPT ![r] = [IdleReader EXCEPT !.pc = "done", !.user = user_id, !.source = "error"]]
    /\ UNCHANGED <<now, clockMoves, storeVars, membership, expCache, mixCache, topic, offset, jobs,
                   po, cons, dj, histVars>>

\* the same for the later cache calls of the request: client.get and client.setex of the
\* mixture, client.setex of the experiment list
ReadCacheCallFails(r) ==
    /\ rd[r].pc \in {"hit_mix", "gen_mix", "hit_mix_set", "gen_mix_set", "populate"}
    /\ ~cacheUp
    /\ rd' = [rd EXCEPT ![r].pc = "done", ![r].source = "error"]
    /\ UNCHANGED <<now, clockMoves, storeVars, membership, expCache, mixCache, topic, offset, jobs,
                   po, cons, dj, histVars>>

\* the cache server goes down or comes back
CacheOutage ==
    /\ cacheUp' = ~cacheUp
    /\ UNCHANGED <<now, clockMoves, storeVars, membership, expCache, mixCache, topic, offset, jobs,
                   rd, po, cons, dj, cacheMem, cacheOld, lastMatched, covered, rivals, resolved,
                   assignCall, evalCall, adm, iv, sw>>

(***************************************************************************)
(* POST /orders and POST /test/orders/dormancy                             *)
(***************************************************************************)
\* db.add(order); db.commit(); db.refresh(order)
PlaceOrderPersist(p, user_id, amount, city, endpoint, delay) ==
    /\ po[p].pc \in {"idle", "done"}
    /\ Len(orders) < MaxOrders
    /\ orders' = Append(orders, [user_id |-> user_id, amount |-> amount, city |-> city, created_at |-> now])
    /\ po' = [po EXCEPT ![p] = [IdlePlacer EXCEPT !.pc = "invalidate_exp", !.user = user_id,
                                                  !.orderID = Len(orders) + 1, !.created_at = now,
                                                  !.endpoint = endpoint, !.delay = delay]]
    /\ UNCHANGED <<now, clockMoves, segments, experiments, links, membership, expCache, mixCache,
                   topic, offset, jobs, rd, cons, dj, histVars>>

\* invalidate_user_cache(payload["user_id"])
PlaceOrderInvalidateExp(p) ==
    /\ po[p].pc = "invalidate_exp"
    /\ expCache' = CacheDelete(expCache, po[p].user)
    /\ cacheMem' = [cacheMem EXCEPT ![po[p].user] = {}]
    /\ cacheOld' = [cacheOld EXCEPT ![po[p].user] = FALSE]
    /\ po' = [po EXCEPT ![p].pc = "invalidate_mix"]
    /\ UNCHANGED <<now, clockMoves, storeVars, membership, mixCache, topic, offset, jobs, rd, cons, dj,
                   lastMatched, covered, rivals, resolved, otherVars>>

\* invalidate_banner_mixture(payload["user_id"])
PlaceOrderInvalidateMix(p) ==
    /\ po[p].pc = "invalidate_mix"
    /\ mixCache' = CacheDelete(mixCache, po[p].user)
    /\ po' = [po EXCEPT ![p].pc = "publish"]
    /\ UNCHANGED <<now, clockMoves, storeVars, membership, expCache, topic, offset, jobs, rd, cons, dj,
                   histVars>>

publish_event_lost(log, payload, acked) == log

\* publish_event: the send is acknowledged, or KafkaError is caught and only printed
publish_event(log, payload, acked) == IF acked THEN Append(log, payload) ELSE log

PlaceOrderPublish(p, acked) ==
    /\ po[p].pc = "publish"
    /\ topic' = publish_event(topic, [user_id |-> po[p].user, orderID |-> po[p].orderID], acked)
    /\ po' = [po EXCEPT ![p].pc = "schedule"]
    /\ UNCHANGED <<now, clockMoves, storeVars, membership, expCache, mixCache, offset, jobs, rd, cons, dj,
                   histVars>>

\* run_at of the two endpoints
RunAt(endpoint, delay, t) ==
    IF endpoint = "test" THEN t + delay
    ELSE IF TEST_MODE THEN t + DORMANCY_SECONDS_TEST
    ELSE t + DORMANCY_DAYS * SECONDS_PER_DAY

\* scheduler.add_job(check_user_dormancy, ...) and return {"status": "placed"}
PlaceOrderSchedule(p) ==
    /\ po[p].pc = "schedule"
    /\ jobs' = add_job(jobs, JobId(po[p].user), RunAt(po[p].endpoint, po[p].delay, now),
                       <<po[p].user, isoformat(po[p].created_at)>>)
    /\ po' = [po EXCEPT ![p].pc = "done"]
    /\ UNCHANGED <<now, clockMoves, storeVars, membership, expCache, mixCache, topic, offset, rd, cons, dj,
                   histVars>>

(***************************************************************************)
(* Consumer loop of consumer/consumer.py                                   *)
(***************************************************************************)
\* c.poll(), json.loads, event.get("user_id"): a value that is not JSON makes json.loads raise
\* outside the try block, which ends the loop; an event without user_id is skipped
ConsumerPoll ==
    /\ cons.pc = "idle"
    /\ offset < Len(topic)
    /\ offset' = offset + 1
    /\ LET msg == topic[offset + 1]
       IN  cons' = IF "raw" \in DOMAIN msg THEN [IdleConsumer EXCEPT !.pc = "crashed"]
                   ELSE IF "user_id" \notin DOMAIN msg THEN IdleConsumer
                   ELSE [IdleConsumer EXCEPT !.pc = "refresh_begin", !.user = msg.user_id]
    /\ UNCHANGED <<now, clockMoves, storeVars, membership, expCache, mixCache, topic, jobs, rd, po, dj,
                   histVars>>

\* c.poll() hands out a message that was consumed before (at-least-once delivery)
ConsumerRedeliver ==
    /\ cons.pc = "idle"
    /\ \E k \in 1 .. offset :
          cons' = [IdleConsumer EXCEPT !.pc = "refresh_begin", !.user = topic[k].user_id, !.redelivered = TRUE]
    /\ UNCHANGED <<now, clockMoves, storeVars, membership, expCache, mixCache, topic, offset, jobs, rd, po, dj,
                   histVars>>

ConsumerRefreshBegin ==
    /\ cons.pc = "refresh_begin"
    /\ \E b \in RefreshBegin(cons.user) :
          /\ cons' = IF b.ok THEN [cons EXCEPT !.pc = "refresh_commit", !.run = b.run]
                     ELSE [cons EXCEPT !.pc = "idle"]
          /\ membership' = RowsAfterBegin(cons.user, b.ok)
    /\ UNCHANGED <<now, clockMoves, storeVars, expCache, mixCache, topic, offset, jobs, rd, po, dj,
                   histVars>>

\* commit of the consumer's run; the cache is left as it is.  History: readers that resolved
\* experiments from the membership of the user and have not yet stored the list are marked
ConsumerRefreshCommit ==
    /\ cons.pc = "refresh_commit"
    /\ RefreshCommit(cons.user, cons.run)
    /\ cons' = [cons EXCEPT !.pc = "idle", !.run = NoRun]
    /\ cacheOld' = [cacheOld EXCEPT ![cons.user] =
                       @ \/ (expCache[cons.user] # Nil /\ cacheMem[cons.user] # MembershipOf(membership', cons.user))]
    /\ rd' = [r \in Readers |-> IF rd[r].user = cons.user /\ rd[r].source = "db"
                                   /\ rd[r].pc \in {"gen_mix", "gen_mix_set", "populate"}
                                THEN [rd[r] EXCEPT !.old = @ \/ (rd[r].mem # MembershipOf(membership', cons.user))]
                                ELSE rd[r]]
    /\ UNCHANGED <<now, clockMoves, storeVars, expCache, mixCache, topic, offset, jobs, po, dj, cacheMem,
                   otherVars>>

(***************************************************************************)
(* check_user_dormancy, run by the scheduler                               *)
(***************************************************************************)
\* the scheduler takes the due job out of the store and starts it
DormancyFire(user_id) ==
    /\ dj[user_id].pc \in {"idle", "done"}
    /\ \E j \in jobs :
          /\ j.id = JobId(user_id)
          /\ now >= j.run_date
          /\ jobs' = jobs \ {j}
          /\ dj' = [dj EXCEPT ![user_id] = [IdleJob EXCEPT !.pc = "check", !.order_placed_at = j.args[2]]]
    /\ UNCHANGED <<now, clockMoves, storeVars, membership, expCache, mixCache, topic, offset, rd, po, cons,
                   histVars>>

subsequent_order_orEqual(os, user_id, order_placed_at) ==
    {i \in OrdersOf(os, user_id) : os[i].created_at >= fromisoformat(order_placed_at)}

\* the query for an order created after the one that scheduled the check
subsequent_order(os, user_id, order_placed_at) ==
    {i \in OrdersOf(os, user_id) : os[i].created_at > fromisoformat(order_placed_at)}

DormancyCheck(user_id) ==
    /\ dj[user_id].pc = "check"
    /\ dj' = [dj EXCEPT ![user_id] =
                 IF subsequent_order(orders, user_id, dj[user_id].order_placed_at) # {}
                 THEN [@ EXCEPT !.pc = "done", !.branch = "active"]
                 ELSE [@ EXCEPT !.pc = "refresh_begin", !.branch = "dormant"]]
    /\ UNCHANGED <<now, clockMoves, storeVars, membership, expCache, mixCache, topic, offset, jobs, rd, po,
                   cons, histVars>>

DormancyRefreshBegin(user_id) ==
    /\ dj[user_id].pc = "refresh_begin"
    /\ \E b \in RefreshBegin(user_id) :
          /\ dj' = [dj EXCEPT ![user_id] = IF b.ok THEN [@ EXCEPT !.pc = "refresh_commit", !.run = b.run]
                                            ELSE [@ EXCEPT !.pc = "done", !.branch = "error"]]
          /\ membership' = RowsAfterBegin(user_id, b.ok)
    /\ UNCHANGED <<now, clockMoves, storeVars, expCache, mixCache, topic, offset, jobs, rd, po, cons,
                   histVars>>

DormancyRefreshCommit(user_id) ==
    /\ dj[user_id].pc = "refresh_commit"
    /\ RefreshCommit(user_id, dj[user_id].run)
    /\ dj' = [dj EXCEPT ![user_id].pc = "invalidate_exp", ![user_id].run = NoRun,
                        ![user_id].wrote = @ \/ MembershipOf(membership', user_id) # MembershipOf(membership, user_id)]
    /\ UNCHANGED <<now, clockMoves, storeVars, expCache, mixCache, topic, offset, jobs, rd, po, cons,
                   cacheMem, cacheOld, otherVars>>

DormancyInvalidateExp(user_id) ==
    /\ dj[user_id].pc = "invalidate_exp"
    /\ cacheUp
    /\ expCache' = CacheDelete(expCache, user_id)
    /\ cacheMem' = [cacheMem EXCEPT ![user_id] = {}]
    /\ cacheOld' = [cacheOld EXCEPT ![user_id] = FALSE]
    /\ dj' = [dj EXCEPT ![user_id].pc = "invalidate_mix", ![user_id].wrote = @ \/ expCache[user_id] # Nil]
    /\ UNCHANGED <<now, clockMoves, storeVars, membership, mixCache, topic, offset, jobs, rd, po, cons,
                   lastMatched, covered, rivals, resolved, otherVars>>

DormancyInvalidateMix(user_id) ==
    /\ dj[user_id].pc = "invalidate_mix"
    /\ cacheUp
    /\ mixCache' = CacheDelete(mixCache, user_id)
    /\ dj' = [dj EXCEPT ![user_id].pc = "done", ![user_id].wrote = @ \/ mixCache[user_id] # Nil]
    /\ UNCHANGED <<now, clockMoves, storeVars, membership, expCache, topic, offset, jobs, rd, po, cons,
                   histVars>>

\* client.delete raises while the cache server is down: except Exception prints the error and
\* the check ends, after the resolver's commit
DormancyInvalidateFails(user_id) ==
    /\ dj[user_id].pc \in {"invalidate_exp", "invalidate_mix"}
    /\ ~cacheUp
    /\ dj' = [dj EXCEPT ![user_id].pc = "done", ![user_id].branch = "error"]
    /\ UNCHANGED <<now, clockMoves, storeVars, membership, expCache, mixCache, topic, offset, jobs, rd, po,
                   cons, histVars>>

(***************************************************************************)
(* DELETE /users/{user_id}/cache                                           *)
(***************************************************************************)
\* invalidate_user_cache(user_id)
InvalidateUserCache(user_id) ==
    /\ iv.pc \in {"idle", "done"}
    /\ expCache' = CacheDelete(expCache, user_id)
    /\ cacheMem' = [cacheMem EXCEPT ![user_id] = {}]
    /\ cacheOld' = [cacheOld EXCEPT ![user_id] = FALSE]
    /\ iv' = [IdleInvalidation EXCEPT !.pc = "invalidate_mix", !.user = user_id,
                                      !.hadExp = CacheGet(expCache, user_id, now) # Nil]
    /\ UNCHANGED <<now, clockMoves, storeVars, membership, mixCache, topic, offset, jobs, rd, po, cons, dj,
                   lastMatched, covered, rivals, resolved, assignCall, evalCall, adm, sw, cacheUp>>

InvalidateBannerMixture_skips ==
    /\ iv.pc = "invalidate_mix"
    /\ iv' = [iv EXCEPT !.pc = "done"]
    /\ UNCHANGED <<now, clockMoves, storeVars, membership, expCache, mixCache, topic, offset, jobs, rd, po,
                   cons, dj, cacheMem, cacheOld, lastMatched, covered, rivals, resolved,
                   assignCall, evalCall, adm, sw, cacheUp>>

\* invalidate_banner_mixture(user_id) and return {"status": "invalidated"}
InvalidateBannerMixture ==
    /\ iv.pc = "invalidate_mix"
    /\ mixCache' = CacheDelete(mixCache, iv.user)
    /\ iv' = [iv EXCEPT !.pc = "done"]
    /\ UNCHANGED <<now, clockMoves, storeVars, membership, expCache, topic, offset, jobs, rd, po, cons, dj,
                   cacheMem, cacheOld, lastMatched, covered, rivals, resolved,
                   assignCall, evalCall, adm, sw, cacheUp>>

(***************************************************************************)
(* cron/refresh_segments.py                                                *)
(***************************************************************************)
get_potentially_dormant_users_orEqual(os, t) ==
    LET cutoff == t - SWEEP_HORIZON_DAYS * SECONDS_PER_DAY
        active_recently == {os[i].user_id : i \in {k \in DOMAIN os : os[k].created_at > cutoff}}
    IN  {os[i].user_id : i \in {k \in DOMAIN os : os[k].created_at <= cutoff}} \ active_recently

\* users with an order before the cutoff and none at or after it, each once
get_potentially_dormant_users(os, t) ==
    LET cutoff == t - SWEEP_HORIZON_DAYS * SECONDS_PER_DAY
        active_recently == {os[i].user_id : i \in {k \in DOMAIN os : os[k].created_at >= cutoff}}
    IN  {os[i].user_id : i \in {k \in DOMAIN os : os[k].created_at < cutoff}} \ active_recently

\* user_ids = get_potentially_dormant_users(db)
SweepSelect ==
    /\ sw.pc \in {"idle", "done"}
    /\ LET user_ids == get_potentially_dormant_users(orders, now)
       IN  sw' = [IdleSweep EXCEPT !.pc = "next", !.user_ids = user_ids, !.todo = user_ids]
    /\ UNCHANGED <<now, clockMoves, storeVars, membership, expCache, mixCache, topic, offset, jobs, rd, po,
                   cons, dj, cacheMem, cacheOld, lastMatched, covered, rivals, resolved,
                   assignCall, evalCall, adm, iv, cacheUp>>

\* for user_id in user_ids: the next user of the list, or the end of the run
SweepNext ==
    /\ sw.pc = "next"
    /\ \/ /\ sw.todo = {}
          /\ sw' = [sw EXCEPT !.pc = "done"]
       \/ \E user_id \in sw.todo :
             sw' = [sw EXCEPT !.pc = "refresh_begin", !.user = user_id, !.todo = @ \ {user_id},
                                 !.expDirty = FALSE]
    /\ UNCHANGED <<now, clockMoves, storeVars, membership, expCache, mixCache, topic, offset, jobs, rd, po,
                   cons, dj, cacheMem, cacheOld, lastMatched, covered, rivals, resolved,
                   assignCall, evalCall, adm, iv, cacheUp>>

\* service.refresh_user_segments(user_id) up to the DELETE; an exception ends the iteration
SweepRefreshBegin ==
    /\ sw.pc = "refresh_begin"
    /\ \E b \in RefreshBegin(sw.user) :
          /\ sw' = IF b.ok THEN [sw EXCEPT !.pc = "refresh_commit", !.run = b.run]
                   ELSE [sw EXCEPT !.pc = "next"]
          /\ membership' = RowsAfterBegin(sw.user, b.ok)
    /\ UNCHANGED <<now, clockMoves, storeVars, expCache, mixCache, topic, offset, jobs, rd, po,
                   cons, dj, cacheMem, cacheOld, lastMatched, covered, rivals, resolved,
                   assignCall, evalCall, adm, iv, cacheUp>>

SweepRefreshCommit ==
    /\ sw.pc = "refresh_commit"
    /\ RefreshCommit(sw.user, sw.run)
    /\ sw' = [sw EXCEPT !.pc = "invalidate_exp", !.run = NoRun]
    /\ UNCHANGED <<now, clockMoves, storeVars, expCache, mixCache, topic, offset, jobs, rd, po, cons, dj,
                   cacheMem, cacheOld, assignCall, evalCall, adm, iv, cacheUp>>

\* invalidate_user_cache(user_id)
SweepInvalidateExp ==
    /\ sw.pc = "invalidate_exp"
    /\ cacheUp
    /\ expCache' = CacheDelete(expCache, sw.user)
    /\ cacheMem' = [cacheMem EXCEPT ![sw.user] = {}]
    /\ cacheOld' = [cacheOld EXCEPT ![sw.user] = FALSE]
    /\ sw' = [sw EXCEPT !.pc = "invalidate_mix"]
    /\ UNCHANGED <<now, clockMoves, storeVars, membership, mixCache, topic, offset, jobs, rd, po, cons, dj,
                   lastMatched, covered, rivals, resolved, assignCall, evalCall, adm, iv, cacheUp>>

\* invalidate_banner_mixture(user_id); the iteration ends
SweepInvalidateMix ==
    /\ sw.pc = "invalidate_mix"
    /\ cacheUp
    /\ mixCache' = CacheDelete(mixCache, sw.user)
    /\ sw' = [sw EXCEPT !.pc = "next"]
    /\ UNCHANGED <<now, clockMoves, storeVars, membership, expCache, topic, offset, jobs, rd, po, cons, dj,
                   cacheMem, cacheOld, lastMatched, covered, rivals, resolved,
                   assignCall, evalCall, adm, iv, cacheUp>>

\* client.delete raises while the cache server is down: except Exception ends the iteration
SweepInvalidateFails ==
    /\ sw.pc \in {"invalidate_exp", "invalidate_mix"}
    /\ ~cacheUp
    /\ sw' = [sw EXCEPT !.pc = "next"]
    /\ UNCHANGED <<now, clockMoves, storeVars, membership, expCache, mixCache, topic, offset, jobs, rd, po,
                   cons, dj, cacheMem, cacheOld, lastMatched, covered, rivals, resolved,
                   assignCall, evalCall, adm, iv, cacheUp>>

(***************************************************************************)
(* POST /experiments                                                       *)
(***************************************************************************)
CreateExperimentRequest(payload) ==
    LET created == create_experiment(experiments, links, payload.name, payload.variants,
                                     payload.segmentIDs, "active")
    IN  /\ experiments' = created.experiments
        /\ links' = created.links
        /\ UNCHANGED <<now, clockMoves, orders, segments, membership, expCache, mixCache, topic, offset,
                       jobs, rd, po, cons, dj, histVars>>

\* the same handler with the caller's view of it: what it raised and the id it returned
AdminCreateExperiment(a, payload) ==
    LET created == create_experiment(experiments, links, payload.name, payload.variants,
                                     payload.segmentIDs, "active")
    IN  /\ adm[a].pc \in {"idle", "done"}
        /\ experiments' = created.experiments
        /\ links' = created.links
        /\ adm' = [adm EXCEPT ![a] = [IdleAdmin EXCEPT !.pc = "done", !.op = "create_experiment",
                                                       !.name = payload.name, !.raised = created.raised,
                                                       !.response = created.experimentID,
                                                       !.existed = \E e \in experiments : e.name = payload.name]]
        /\ UNCHANGED <<now, clockMoves, orders, segments, membership, expCache, mixCache, topic, offset,
                       jobs, rd, po, cons, dj, cacheMem, cacheOld, lastMatched, covered, rivals, resolved,
                       assignCall, evalCall, iv, sw, cacheUp>>

(***************************************************************************)
(* POST /segments                                                          *)
(***************************************************************************)
\* Segment(...); db.add; db.commit; db.refresh; return segment
CreateSegmentInsert(a, payload) ==
    LET inserted == create_segment_insert(segments, payload.name, payload.description, payload.rules)
    IN  /\ adm[a].pc \in {"idle", "done"}
        /\ segments' = inserted.segments
        /\ adm' = [adm EXCEPT ![a] = [IdleAdmin EXCEPT
                        !.pc = IF inserted.raised = "IntegrityError" THEN "rollback" ELSE "done",
                        !.op = "create_segment", !.name = payload.name, !.raised = inserted.raised,
                        !.response = inserted.segmentID,
                        !.existed = \E x \in segments : x.name = payload.name]]
        /\ UNCHANGED <<now, clockMoves, orders, experiments, links, membership, expCache, mixCache, topic,
                       offset, jobs, rd, po, cons, dj, cacheMem, cacheOld, lastMatched, covered, rivals,
                       resolved, assignCall, evalCall, iv, sw, cacheUp>>

\* except IntegrityError: db.rollback(); return the segment stored under that name
CreateSegmentExisting(a) ==
    /\ adm[a].pc = "rollback"
    /\ \E id \in create_segment_existing(segments, adm[a].name) :
          adm' = [adm EXCEPT ![a].pc = "done", ![a].response = id]
    /\ UNCHANGED <<now, clockMoves, storeVars, membership, expCache, mixCache, topic,
                   offset, jobs, rd, po, cons, dj, cacheMem, cacheOld, lastMatched, covered, rivals,
                   resolved, assignCall, evalCall, iv, sw, cacheUp>>

(***************************************************************************)
(* Processes                                                               *)
(***************************************************************************)
Read(r, US) ==
    \/ \E user_id \in US : ReadCacheCheck(r, user_id)
    \/ ReadEnsureSegments(r)
    \/ ReadRefreshBegin(r)
    \/ ReadRefreshCommit(r)
    \/ ReadResolve(r)
    \/ ReadMixtureGet(r)
    \/ ReadMixtureSet(r)
    \/ ReadPopulate(r)

PlaceOrderProd(p, US) ==
    \E user_id \in US, amount \in Amounts, city \in Cities : PlaceOrderPersist(p, user_id, amount, city, "prod", 0)

PlaceOrderTest(p, US) ==
    \E user_id \in US, amount \in Amounts, city \in Cities, delay \in {0} :
        PlaceOrderPersist(p, user_id, amount, city, "test", delay)

PlaceOrderSteps(p) ==
    \/ PlaceOrderInvalidateExp(p)
    \/ PlaceOrderInvalidateMix(p)
    \/ \E acked \in BOOLEAN : PlaceOrderPublish(p, acked)
    \/ PlaceOrderSchedule(p)

\* the steps of a request while the broker acknowledges every send
PlaceOrderStepsDelivered(p) ==
    \/ PlaceOrderInvalidateExp(p)
    \/ PlaceOrderInvalidateMix(p)
    \/ PlaceOrderPublish(p, TRUE)
    \/ PlaceOrderSchedule(p)

Consume ==
    \/ ConsumerPoll
    \/ ConsumerRefreshBegin
    \/ ConsumerRefreshCommit

Dormancy(user_id) ==
    \/ DormancyFire(user_id)
    \/ DormancyCheck(user_id)
    \/ DormancyRefreshBegin(user_id)
    \/ DormancyRefreshCommit(user_id)
    \/ DormancyInvalidateExp(user_id)
    \/ DormancyInvalidateMix(user_id)

Sweep ==
    \/ SweepSelect
    \/ SweepNext
    \/ SweepRefreshBegin
    \/ SweepRefreshCommit
    \/ SweepInvalidateExp
    \/ SweepInvalidateMix

(***************************************************************************)
(* Spec: the read path against one placer and the consumer, one user       *)
(***************************************************************************)
Next ==
    \/ Read("r1", {"u1"})
    \/ PlaceOrderProd("p1", {"u1"})
    \/ PlaceOrderSteps("p1")
    \/ Consume

Spec == Init /\ [][Next]_vars

(***************************************************************************)
(* SpecDelivered: the processes of Spec with a broker that acknowledges    *)
(* every send; a request that started runs to its return, and the consumer *)
(* loop keeps polling                                                      *)
(***************************************************************************)
NextDelivered ==
    \/ Read("r1", {"u1"})
    \/ PlaceOrderProd("p1", {"u1"})
    \/ PlaceOrderStepsDelivered("p1")
    \/ Consume

\* the same processes on the store of the end-to-end scenario
SpecNewUserOnly == InitNewUserOnly /\ [][Next]_vars

SpecDelivered ==
    /\ Init /\ [][NextDelivered]_vars
    /\ WF_vars(PlaceOrderStepsDelivered("p1"))
    /\ WF_vars(Consume)

(***************************************************************************)
(* SpecCatalog: the processes of SpecDelivered and experiment creation, on *)
(* a catalog that starts without an active banner experiment               *)
(***************************************************************************)
NextCatalog ==
    \/ Read("r1", {"u1"})
    \/ PlaceOrderProd("p1", {"u1"})
    \/ PlaceOrderStepsDelivered("p1")
    \/ Consume
    \/ \E payload \in ExperimentPayloads : CreateExperimentRequest(payload)

SpecCatalog == InitCatalog /\ [][NextCatalog]_vars

(***************************************************************************)
(* SpecAssign: assign_variant on its own                                   *)
(***************************************************************************)
\* exp_service.assign_variant(user_id, experiment), called again and again on the same arguments
AssignVariantCall ==
    /\ assignCall # Nil
    /\ LET variant == assign_variant(assignCall.user, assignCall.experiment)
       IN  assignCall' = [assignCall EXCEPT !.latest = Some(variant),
                                            !.first = IF @ = Nil THEN Some(variant) ELSE @]
    /\ UNCHANGED <<now, clockMoves, storeVars, membership, expCache, mixCache, topic, offset, jobs,
                   rd, po, cons, dj, cacheMem, cacheOld, lastMatched, covered, rivals, resolved,
                   evalCall, adm, iv, sw, cacheUp>>

SpecAssign == InitAssign /\ [][AssignVariantCall]_vars

(***************************************************************************)
(* SpecEvaluate: evaluate on its own, over rule trees with recognized and  *)
(* unrecognized operators and fact maps with and without the leaf's field  *)
(***************************************************************************)
\* fact maps: no facts, a user without orders, a user with two orders in CityHSR
EvalFacts ==
    { [f \in {} |-> Num(0)],
      [f \in {"total_orders"} |-> Num(0)],
      [f \in {"total_orders", "city"} |-> IF f = "city" THEN CityHSR ELSE Num(2)] }

\* rule trees: leaves over a numeric field, a string field and a field no fact map has, with
\* every leaf operator and an unrecognized one; nodes over up to two children; nodes of nodes
EvalTrees ==
    LET EvalLeaves ==
            { Leaf(f, o, v) : f \in {"total_orders", "city", "tier"},
                              o \in {"gt", "gte", "lt", "lte", "eq", "neq", "in", "not_in", "between"},
                              v \in {Num(1), CityHSR, Lst({Num(2), CityHSR})} }
        ChildLeaves ==
            { Leaf("total_orders", "gte", Num(1)), Leaf("total_orders", "lt", Num(1)),
              Leaf("city", "in", Lst({Num(2), CityHSR})), Leaf("tier", "neq", Num(1)),
              Leaf("tier", "between", Num(1)), Leaf("total_orders", "between", Num(1)) }
        FlatNodes ==
            { Node(o, cs) : o \in {"AND", "OR", "XOR"},
                            cs \in {<<>>} \cup {<<a>> : a \in ChildLeaves}
                                       \cup {<<a, b>> : a \in ChildLeaves, b \in ChildLeaves} }
        InnerNodes ==
            { Node("AND", <<>>), Node("OR", <<>>), Node("XOR", <<>>),
              Node("AND", <<Leaf("total_orders", "gte", Num(1)), Leaf("tier", "neq", Num(1))>>),
              Node("OR", <<Leaf("total_orders", "lt", Num(1)), Leaf("city", "in", Lst({Num(2), CityHSR}))>>),
              Node("OR", <<Leaf("tier", "between", Num(1))>>) }
        NestedNodes ==
            { Node(o, <<a, b>>) : o \in {"AND", "OR"}, a \in InnerNodes, b \in InnerNodes \cup ChildLeaves }
    IN  EvalLeaves \cup FlatNodes \cup NestedNodes

InitEvaluate ==
    /\ InitAt(SeededSegments, SeededExperiments, SeededLinks, <<>>, <<>>, {}, 0)
    /\ assignCall = Nil
    /\ evalCall \in [rules : EvalTrees, user_stats : EvalFacts, first : {Nil}, latest : {Nil}]

\* evaluate(rules, user_stats), called again and again on the same arguments
EvaluateCall ==
    /\ evalCall # Nil
    /\ LET result == evaluate(evalCall.rules, evalCall.user_stats)
       IN  evalCall' = [evalCall EXCEPT !.latest = Some(result),
                                        !.first = IF @ = Nil THEN Some(result) ELSE @]
    /\ UNCHANGED <<now, clockMoves, storeVars, membership, expCache, mixCache, topic, offset, jobs,
                   rd, po, cons, dj, cacheMem, cacheOld, lastMatched, covered, rivals, resolved,
                   assignCall, adm, iv, sw, cacheUp>>

SpecEvaluate == InitEvaluate /\ [][EvaluateCall]_vars

(***************************************************************************)
(* SpecRedelivery: orders of two users and a consumer whose messages may   *)
(* be handed out again                                                     *)
(***************************************************************************)
NextRedelivery ==
    \/ PlaceOrderProd("p1", Users)
    \/ PlaceOrderStepsDelivered("p1")
    \/ Consume
    \/ ConsumerRedeliver

SpecRedelivery == Init /\ [][NextRedelivery]_vars

(***************************************************************************)
(* SpecAdmin: two callers of POST /segments and POST /experiments          *)
(***************************************************************************)
NextAdmin ==
    \E a \in Admins :
        \/ \E payload \in AdminExperimentPayloads : AdminCreateExperiment(a, payload)
        \/ \E payload \in SegmentPayloads : CreateSegmentInsert(a, payload)
        \/ CreateSegmentExisting(a)

SpecAdmin == InitCatalog /\ [][NextAdmin]_vars

(***************************************************************************)
(* SpecJobs: two concurrent requests (one on POST /orders, one on          *)
(* POST /test/orders/dormancy), the scheduler's jobs and the clock         *)
(***************************************************************************)
NextJobs ==
    \/ PlaceOrderProd("p2", {"u1"})
    \/ PlaceOrderTest("p1", {"u1"})
    \/ \E p \in Placers : PlaceOrderSteps(p)
    \/ Dormancy("u1")
    \/ AdvanceTime(DORMANCY_SECONDS_TEST)

SpecJobs == Init /\ [][NextJobs]_vars

(***************************************************************************)
(* SpecOutage: reads of two users while the cache server goes down and     *)
(* comes back                                                              *)
(***************************************************************************)
NextOutage ==
    \/ Read("r1", Users)
    \/ \E user_id \in Users : ReadCacheCheckFails("r1", user_id)
    \/ ReadCacheCallFails("r1")
    \/ CacheOutage

SpecOutage == Init /\ [][NextOutage]_vars

(***************************************************************************)
(* States in which orders placed on POST /orders have aged: their events   *)
(* are in the topic and not consumed, the dormancy job of each user's last *)
(* order is pending                                                        *)
(***************************************************************************)
Placed(user_id, t) == [user_id |-> user_id, amount |-> 100, city |-> CityHSR, created_at |-> t]

RECURSIVE LedgerJobs(_, _)
LedgerJobs(os, n) ==
    IF n = 0 THEN {}
    ELSE add_job(LedgerJobs(os, n - 1), JobId(os[n].user_id), RunAt("prod", 0, os[n].created_at),
                 <<os[n].user_id, isoformat(os[n].created_at)>>)

InitLedger(os, t) ==
    /\ InitAt(SeededSegments, SeededExperiments, SeededLinks, os,
              [i \in DOMAIN os |-> [user_id |-> os[i].user_id, orderID |-> i]], LedgerJobs(os, Len(os)), t)
    /\ assignCall = Nil
    /\ evalCall = Nil

\* one second past the sweep's horizon, counted from time 0
SweepNow == SWEEP_HORIZON_DAYS * SECONDS_PER_DAY + 1

\* the state after a single order of u1 at time 0
InitAged == InitLedger(<<Placed("u1", 0)>>, SweepNow)

\* ledgers with orders before the cutoff (time 0), exactly on it (time 1) and after it
SweepLedgers ==
    { <<>>,
      <<Placed("u1", 0), Placed("u2", SweepNow)>>,
      <<Placed("u1", 0), Placed("u2", 0)>>,
      <<Placed("u1", 0), Placed("u1", 1)>>,
      <<Placed("u2", 0), Placed("u1", 1)>>,
      <<Placed("u1", 0), Placed("u1", SweepNow)>>,
      <<Placed("u1", 0), Placed("u1", 0), Placed("u2", SweepNow)>> }

InitSweep == \E os \in SweepLedgers : InitLedger(os, SweepNow)

(***************************************************************************)
(* SpecSweep: the sweep over aged ledgers of two users, against reads of   *)
(* both users                                                              *)
(***************************************************************************)
NextSweep ==
    \/ Read("r1", Users)
    \/ Sweep

SpecSweep == InitSweep /\ [][NextSweep]_vars

(***************************************************************************)
(* SpecFailures: the consumer and the sweep on a store with a segment      *)
(* whose rule raises for users that have a city, a topic that may hold an  *)
(* event without user_id or a value that is not JSON, and a cache server   *)
(* that goes down and comes back.  u1's order has a city, u2's has none.   *)
(***************************************************************************)
InitFailures ==
    LET os == << Placed("u1", 0), [Placed("u2", 0) EXCEPT !.city = NoCity] >>
        e1 == [user_id |-> "u1", orderID |-> 1]
        e2 == [user_id |-> "u2", orderID |-> 2]
        metro == [segmentID |-> 3, name |-> "metro", description |-> "User in a metro city",
                  rules |-> Node("AND", <<Leaf("city", "between", CityHSR)>>)]
    IN  /\ \E tp \in { <<e1, e2>>, <<e1, [orderID |-> 7], e2>>, <<e1, [raw |-> "order_placed"], e2>> } :
              InitAt(SeededSegments \cup {metro}, SeededExperiments, SeededLinks, os, tp,
                     LedgerJobs(os, Len(os)), SweepNow)
        /\ assignCall = Nil
        /\ evalCall = Nil

NextFailures ==
    \/ Consume
    \/ Sweep
    \/ SweepInvalidateFails
    \/ CacheOutage

SpecFailures == InitFailures /\ [][NextFailures]_vars

(***************************************************************************)
(* SpecInvalidators: a reader of u1 against the three operations that      *)
(* clear u1's cache entries on their own: the manual invalidation, the     *)
(* dormancy check of u1's only order, and the sweep                        *)
(***************************************************************************)
NextInvalidators ==
    \/ Read("r1", {"u1"})
    \/ Dormancy("u1")
    \/ InvalidateUserCache("u1")
    \/ InvalidateBannerMixture
    \/ Sweep

SpecInvalidators == InitAged /\ [][NextInvalidators]_vars


(***************************************************************************)
(* Properties                                                              *)
(***************************************************************************)
\* C1: once the consumer's resolver run for an order of u has committed, no read of u is
\* answered from the experiment cache with a list computed from the membership u had
\* before that run (a hit is never served against membership that the run replaced)
C1_NoStaleCacheHit ==
    \A r \in Readers : ~(rd[r].source = "cache" /\ rd[r].old)

\* C2 as stated: at the step that completes place_order for u both cache entries of u are absent
C2_AbsentAtCompletion ==
    [][\A p \in Placers :
          (po[p].pc = "schedule" /\ po'[p].pc = "done")
              => (expCache'[po[p].user] = Nil /\ mixCache'[po[p].user] = Nil)]_vars

CleanSinceInvalidation(p) == ~po[p].expDirty /\ ~po[p].mixDirty

\* C2 amended: after place_order for u has completed, and as long as no read of u has written a
\* cache entry since the request's invalidation, both entries of u are absent; a read of u
\* that starts then is a miss (source 'db') and recomputes the banner mixture
C2_MissAfterPlaceOrder ==
    /\ [](\A p \in Placers :
             (po[p].pc = "done" /\ CleanSinceInvalidation(p))
                 => (expCache[po[p].user] = Nil /\ mixCache[po[p].user] = Nil))
    /\ [][\A p \in Placers, r \in Readers :
             (po[p].pc = "done" /\ CleanSinceInvalidation(p) /\ rd'[r].user = po[p].user)
                 => /\ (rd[r].pc \in {"idle", "done"} /\ rd'[r].pc \notin {"idle", "done"})
                          => (rd'[r].source = "db" /\ rd'[r].pc = "ensure_segments")
                    /\ (p \in rd[r].after /\ rd[r].pc = "gen_mix" /\ rd'[r].pc # "gen_mix")
                          => (rd'[r].pc = "gen_mix_set" \/ rd'[r].mix = Nil)]_vars

\* a read of u that started after the request completed has missed and recomputed the mixture
C2_Witness ==
    \E p \in Placers, r \in Readers :
        /\ po[p].pc = "done" /\ CleanSinceInvalidation(p) /\ p \in rd[r].after
        /\ rd[r].user = po[p].user /\ rd[r].source = "db" /\ rd[r].pc = "gen_mix_set"

\* C3: with every send acknowledged and a consumer that keeps polling, every persisted order is
\* eventually included in the stats snapshot of a committed resolver run of its user, and when
\* that run commits the segment new_user, whose rule no longer matches, is not in the membership
C3_EveryOrderResolved ==
    \A i \in 1..MaxOrders :
        (Len(orders) >= i /\ i \notin covered) ~> (i \in covered /\ 1 \notin MembershipOf(membership, "u1"))

\* a read had put u1 in new_user; the run for u1's order then committed a membership without it
C3_Witness ==
    /\ 1 \in covered /\ offset >= 1 /\ cons.pc = "idle"
    /\ MembershipOf(membership, "u1") = {2}
    /\ \E r \in Readers : rd[r].pc = "done" /\ rd[r].mem = {1}

SegmentsMatching(stats) == {s.segmentID : s \in {x \in segments : evaluate(x.rules, stats) = "T"}}

RunPostcondition(user_id, run) ==
    /\ MembershipOf(membership', user_id) = SegmentsMatching(run.stats)
    /\ run.matched = MembershipOf(membership', user_id)

\* C4: when refresh_user_segments(u) commits, the stored membership of u is exactly the set of
\* segments whose rules evaluate to true on the stats snapshot of that call, and the returned
\* list is that set
C4_RefreshPostcondition ==
    [][/\ \A r \in Readers : (rd[r].pc = "refresh_commit" /\ rd'[r].pc # "refresh_commit")
                                => RunPostcondition(rd[r].user, rd[r].run)
       /\ (cons.pc = "refresh_commit" /\ cons'.pc # "refresh_commit") => RunPostcondition(cons.user, cons.run)
       /\ \A u \in Users : (dj[u].pc = "refresh_commit" /\ dj'[u].pc # "refresh_commit")
                                => RunPostcondition(u, dj[u].run)]_vars

\* a run replaced a membership the cached list had been computed from: the old segment is gone
C4_Witness ==
    /\ expCache["u1"] # Nil /\ cacheMem["u1"] = {1}
    /\ MembershipOf(membership, "u1") = {2} /\ lastMatched["u1"] = {2}

C6_ReadersSeeCommitted ==
    [][\A r \in Readers :
          /\ (rd[r].pc = "resolve" /\ rd'[r].pc = "gen_mix") => rd'[r].mem = lastMatched[rd[r].user]
          /\ (rd[r].pc = "ensure_segments" /\ rd'[r].pc = "refresh_begin") => lastMatched[rd[r].user] = {}
          /\ (rd[r].pc = "ensure_segments" /\ rd'[r].pc = "resolve") => lastMatched[rd[r].user] # {}]_vars

\* a reader resolved experiments from the complete old rows while a run that had deleted them
\* and was about to insert a different list was open
C6_Witness ==
    \E r \in Readers :
        /\ rd[r].pc = "gen_mix" /\ rd[r].source = "db" /\ rd[r].mem # {}
        /\ \E m \in rd[r].sawOpen : m # rd[r].mem

\* C7: when a place_order request ends, the event of its order has been emitted and the job
\* dormancy:u carrying its order's timestamp has been scheduled
C7_EventAndJobAtEnd ==
    [][\A p \in Placers :
          (po[p].pc = "schedule" /\ po'[p].pc = "done")
              => /\ \E i \in DOMAIN topic' : topic'[i].orderID = po[p].orderID
                 /\ \E j \in jobs' : j.id = JobId(po[p].user) /\ j.args[2] = isoformat(po[p].created_at)]_vars

\* C8: at most one pending job per key dormancy:u
C8_OneJobPerUser ==
    \A u \in Users : Cardinality({j \in jobs : j.id = JobId(u)}) <= 1

\* both requests of u1 have scheduled, the second order's job replaced the first one's
C8_Witness ==
    /\ \A p \in Placers : po[p].pc = "done" /\ po[p].user = "u1"
    /\ Len(orders) = 2 /\ orders[1].created_at < orders[2].created_at
    /\ \E j \in jobs : j.id = JobId("u1") /\ j.args[2] = isoformat(orders[2].created_at)

\* C9: with no place_order of u in progress, a pending job of u carries the creation time of
\* u's most recent order
C9_JobCarriesLatestOrder ==
    \A u \in Users :
        (\A p \in Placers : po[p].pc \in {"idle", "done"})
            => \A j \in jobs : j.id = JobId(u)
                  => fromisoformat(j.args[2]) = MaxCreatedAt(orders, OrdersOf(orders, u))

LaterOrderExists(u, t) == \E i \in DOMAIN orders : orders[i].user_id = u /\ orders[i].created_at > t

\* C10: a fired check of u no-ops (no resolver run, no invalidation) iff an order of u is strictly
\* later than the order that scheduled it; otherwise it runs the resolver, then deletes the
\* experiment entry, then the mixture entry
C10_DormancyBranches ==
    [][\A u \in Users :
          /\ (dj[u].pc = "check" /\ dj'[u].pc # "check")
                => IF LaterOrderExists(u, fromisoformat(dj[u].order_placed_at))
                   THEN dj'[u].pc = "done" /\ membership' = membership
                        /\ expCache' = expCache /\ mixCache' = mixCache
                   ELSE dj'[u].pc = "refresh_begin"
          /\ (dj[u].pc = "refresh_begin" /\ dj'[u].pc # "refresh_begin") => dj'[u].pc = "refresh_commit"
          /\ (dj[u].pc = "refresh_commit" /\ dj'[u].pc # "refresh_commit")
                => dj'[u].pc = "invalidate_exp" /\ MembershipOf(membership', u) = dj[u].run.matched
          /\ (dj[u].pc = "invalidate_exp" /\ dj'[u].pc # "invalidate_exp")
                => dj'[u].pc = "invalidate_mix" /\ expCache'[u] = Nil
          /\ (dj[u].pc = "invalidate_mix" /\ dj'[u].pc # "invalidate_mix")
                => dj'[u].pc = "done" /\ mixCache'[u] = Nil
          /\ (dj'[u].pc = "done" /\ dj[u].pc # "done")
                => dj[u].pc \in {"check", "invalidate_mix"}]_vars

\* a check scheduled by one of two orders with the same timestamp ran the resolver and finished
C10_Witness ==
    /\ Len(orders) = 2 /\ orders[1].created_at = orders[2].created_at
    /\ orders[1].user_id = "u1" /\ orders[2].user_id = "u1"
    /\ dj["u1"].pc = "done" /\ dj["u1"].branch = "dormant"
    /\ fromisoformat(dj["u1"].order_placed_at) = orders[1].created_at

\* a request of u for an order later than t has persisted its order and not yet scheduled its job
LaterRequestInProgress(u, t) ==
    \E p \in Placers :
        /\ po[p].user = u /\ po[p].created_at > t
        /\ po[p].pc \in {"invalidate_exp", "invalidate_mix", "publish", "schedule"}

\* C11: when a fired check of u takes the no-op branch because a later order exists, a job of u
\* carrying the timestamp of a later order is pending, or a request for a later order has still
\* to schedule it (so that a check for u's last order eventually fires)
C11_LaterCheckSurvives ==
    [][\A u \in Users :
          (dj[u].pc = "check" /\ dj'[u].pc = "done")
              => \/ \E j \in jobs' : /\ j.id = JobId(u)
                                       /\ fromisoformat(j.args[2]) > fromisoformat(dj[u].order_placed_at)
                 \/ LaterRequestInProgress(u, fromisoformat(dj[u].order_placed_at))]_vars

\* C12: the job scheduled by a request on POST /orders runs at the scheduling instant plus 14 days
C12_RunAtFourteenDays ==
    [][\A p \in Placers :
          (po[p].pc = "schedule" /\ po'[p].pc = "done" /\ po[p].endpoint = "prod")
              => \E j \in jobs' : /\ j.id = JobId(po[p].user)
                                  /\ j.run_date = now + DORMANCY_DAYS * SECONDS_PER_DAY]_vars

C14_ReadResolvesOnce ==
    [][\A r \in Readers :
          (rd[r].pc = "ensure_segments" /\ rd'[r].pc = "refresh_begin") => rd[r].user \notin resolved]_vars

OnHitPath(r) == rd[r].source = "cache" /\ rd[r].pc \in {"hit_mix", "hit_mix_set"}

\* C15 as stated: a read that hit the experiment cache goes straight to its return, with no
\* experiment resolution against the store and no write to a cache entry or to the membership
C15_HitGoesStraightToReturn ==
    [][\A r \in Readers :
          (OnHitPath(r) /\ rd'[r].pc # rd[r].pc)
              => /\ rd'[r].pc = "done" /\ rd'[r].exps = rd[r].exps
                 /\ rd'[r].mix = CacheGet(mixCache, rd[r].user, now)
                 /\ expCache' = expCache /\ mixCache' = mixCache /\ membership' = membership]_vars

\* C15 amended: a read that finds a live experiment entry takes it unchanged as its result with
\* source 'cache'; it never runs the resolver, never writes a membership row or the experiment
\* entry; it then asks for the banner mixture: a live mixture entry is returned with no
\* resolution and no write, otherwise the banner experiments are resolved against the store and,
\* if there are any, a mixture is drawn and written to the mixture entry
C15_HitKeepsListAndMembership ==
    [][\A r \in Readers :
          LET u == rd'[r].user
              cached == CacheGet(expCache, u, now)
              cached_mixture == CacheGet(mixCache, u, now)
          IN
          /\ (rd[r].pc \in {"idle", "done"} /\ rd'[r].pc \notin {"idle", "done"} /\ cached # Nil)
                => /\ rd'[r].pc = "hit_mix" /\ rd'[r].source = "cache" /\ rd'[r].exps = cached[1]
                   /\ expCache' = expCache /\ mixCache' = mixCache /\ membership' = membership
          /\ (OnHitPath(r) /\ rd'[r].pc # rd[r].pc)
                => /\ rd'[r].exps = rd[r].exps /\ rd'[r].source = "cache"
                   /\ expCache' = expCache /\ membership' = membership
                   /\ rd'[r].pc \in {"hit_mix_set", "done"}
          /\ (OnHitPath(r) /\ rd[r].pc = "hit_mix" /\ rd'[r].pc # rd[r].pc)
                => /\ mixCache' = mixCache
                   /\ IF cached_mixture # Nil THEN rd'[r].pc = "done" /\ rd'[r].mix = cached_mixture
                      ELSE IF get_banner_experiments(u, membership, experiments, links) = <<>>
                      THEN rd'[r].pc = "done" /\ rd'[r].mix = Nil
                      ELSE rd'[r].pc = "hit_mix_set"
          /\ (OnHitPath(r) /\ rd[r].pc = "hit_mix_set" /\ rd'[r].pc # rd[r].pc)
                => rd'[r].pc = "done" /\ CacheGet(mixCache', u, now) = rd'[r].mix]_vars

\* a read that hit the experiment entry found no mixture entry, resolved the banner experiments
\* and is about to write the mixture it drew
C15_Witness ==
    \E r \in Readers :
        /\ rd[r].source = "cache" /\ rd[r].pc = "hit_mix_set"
        /\ expCache[rd[r].user] # Nil /\ mixCache[rd[r].user] = Nil

\* u has no active experiment on one of its segments whose assigned variant carries banners
NoBannerVariant(u) ==
    \A e \in experiments :
        (e.status = "active" /\ TargetSegments(links, e.experimentID) \cap MembershipOf(membership, u) # {})
            => "banners" \notin DOMAIN assign_variant(u, e)

MixtureMiss(r) == rd[r].pc \in {"hit_mix", "gen_mix"} /\ CacheGet(mixCache, rd[r].user, now) = Nil

\* C16: on a mixture miss of u with no banner variant the result is absent and the mixture entry
\* is not written; a mixture miss of u with a banner variant, such as the next request after an
\* experiment with banners on one of u's segments was created, produces a mixture
C16_AbsentMixtureNotCached ==
    [][\A r \in Readers :
          (MixtureMiss(r) /\ rd'[r].pc # rd[r].pc)
              => IF NoBannerVariant(rd[r].user)
                 THEN /\ rd'[r].mix = Nil /\ mixCache' = mixCache
                      /\ rd'[r].pc \notin {"hit_mix_set", "gen_mix_set"}
                 ELSE /\ rd'[r].mix # Nil
                      /\ rd'[r].pc \in {"hit_mix_set", "gen_mix_set"}]_vars

\* a request served from the cached list (so an earlier request completed, and with no
\* invalidation and no expiry since, its mixture was absent) has produced a mixture from the
\* experiment created in between
C16_Witness ==
    /\ orders = <<>>
    /\ clockMoves = 0
    /\ rd["r1"].pc = "hit_mix_set"
    /\ rd["r1"].mix # Nil
    /\ \E i \in DOMAIN rd["r1"].mix[1].source_experiments :
          rd["r1"].mix[1].source_experiments[i].experiment_id
              \notin {e.experimentID : e \in CatalogExperiments}

\* C17: a mixture request of u that finds a live mixture entry returns exactly that entry and
\* leaves it as it is, whatever experiments, links and membership rows are stored by then
C17_LiveEntryReturnedUnchanged ==
    [][\A r \in Readers :
          (/\ rd[r].pc \in {"hit_mix", "gen_mix"}
           /\ CacheGet(mixCache, rd[r].user, now) # Nil
           /\ rd'[r].pc # rd[r].pc)
              => /\ rd'[r].mix = Some(mixCache[rd[r].user][1].value)
                 /\ mixCache' = mixCache
                 /\ rd'[r].pc \in {"done", "populate"}]_vars

\* with an order of u1 resolved and an experiment created, a request got the stored entry at a
\* moment when a fresh computation would have named other contributing experiments
C17_Witness ==
    /\ rd["r1"].pc \in {"done", "populate"}
    /\ rd["r1"].hitDiffers
    /\ mixCache["u1"] # Nil
    /\ rd["r1"].mix = Some(mixCache["u1"][1].value)
    /\ 1 \in covered
    /\ Cardinality(experiments) > Cardinality(CatalogExperiments)

\* the active experiments on one of u's segments whose assigned variant carries banners
Contributing(u) ==
    {e \in experiments :
        /\ e.status = "active"
        /\ TargetSegments(links, e.experimentID) \cap MembershipOf(membership, u) # {}
        /\ "banners" \in DOMAIN assign_variant(u, e)}

ContributedBanners(u) == UNION {Range(assign_variant(u, e).banners) : e \in Contributing(u)}

WellFormedMixture(u, banners, source_experiments) ==
    /\ \A i, j \in DOMAIN banners : i < j => banners[i] < banners[j]
    /\ Range(banners) \subseteq ContributedBanners(u)
    /\ Len(banners) = IF Cardinality(ContributedBanners(u)) < 3
                      THEN Cardinality(ContributedBanners(u)) ELSE 3
    /\ Len(source_experiments) = Cardinality(Contributing(u))
    /\ \A e \in Contributing(u) :
          \E i \in DOMAIN source_experiments :
              /\ source_experiments[i].experiment_id = e.experimentID
              /\ source_experiments[i].variant = assign_variant(u, e).name
              /\ source_experiments[i].contributed_banners = assign_variant(u, e).banners

\* C18: a mixture generated on a miss is strictly increasing, drawn from the banners of u's
\* contributing variants, of length min(3, number of those banners), with one provenance entry
\* per contributing experiment (id, assigned variant, that variant's banners); the entry then
\* stored carries the same banners and provenance
C18_GeneratedMixtureWellFormed ==
    [][\A r \in Readers :
          /\ (rd[r].pc \in {"hit_mix", "gen_mix"} /\ rd'[r].pc \in {"hit_mix_set", "gen_mix_set"})
                => WellFormedMixture(rd[r].user, rd'[r].mix[1].banners, rd'[r].mix[1].source_experiments)
          /\ (rd[r].pc \in {"hit_mix_set", "gen_mix_set"} /\ rd'[r].pc # rd[r].pc)
                => /\ mixCache'[rd[r].user] # Nil
                   /\ mixCache'[rd[r].user][1].value.banners = rd[r].mix[1].banners
                   /\ mixCache'[rd[r].user][1].value.source_experiments = rd[r].mix[1].source_experiments
                   /\ rd'[r].mix = Some(mixCache'[rd[r].user][1].value)]_vars

\* a mixture of three banners drawn from four, two experiments contributing and sharing a banner
C18_Witness ==
    /\ rd["r1"].pc \in {"hit_mix_set", "gen_mix_set"}
    /\ Len(rd["r1"].mix[1].banners) = 3
    /\ Len(rd["r1"].mix[1].source_experiments) = 2
    /\ Cardinality(ContributedBanners("u1")) = 4
    /\ WellFormedMixture("u1", rd["r1"].mix[1].banners, rd["r1"].mix[1].source_experiments)

\* C19: assign_variant returns, for the bucket of (user, experiment id), which lies in 0..99, the
\* first variant in declared order whose cumulative weight is above the bucket, the last variant
\* if there is none, and the same variant on every call
C19_AssignVariantByCumulativeWeight ==
    assignCall # Nil /\ assignCall.latest # Nil =>
        LET variants == assignCall.experiment.variants
            b == md5_bucket(assignCall.user, assignCall.experiment.experimentID)
            Above == {i \in DOMAIN variants : Cumulative(variants, i) > b}
        IN  /\ b \in 0 .. 99
            /\ assignCall.latest = assignCall.first
            /\ IF Above = {}
               THEN assignCall.latest[1] = variants[Len(variants)]
               ELSE \E i \in Above : /\ \A j \in Above : i <= j
                                     /\ assignCall.latest[1] = variants[i]

\* a call returned the second variant for a bucket equal to the first cumulative weight
C19_Witness ==
    /\ assignCall # Nil /\ assignCall.latest # Nil
    /\ LET variants == assignCall.experiment.variants
           b == md5_bucket(assignCall.user, assignCall.experiment.experimentID)
       IN  /\ Cumulative(variants, 1) = b
           /\ Len(variants) = 2
           /\ assignCall.latest[1] = variants[2]

\* the active experiments with a link to a segment u is a member of
ExpectedExperiments(u) ==
    {e \in experiments :
        /\ e.status = "active"
        /\ \E seg_id \in MembershipOf(membership, u) : <<e.experimentID, seg_id>> \in links}

\* C20: the list get_user_experiments resolves for u has exactly one entry for each active
\* experiment linked to at least one of u's segments and no other entry, each entry with the
\* experiment's name and the name of assign_variant(u, experiment)
C20_ExactlyMatchingActiveExperiments ==
    [][\A r \in Readers :
          (rd[r].pc = "resolve" /\ rd'[r].pc = "gen_mix")
              => LET u == rd[r].user
                     results == rd'[r].exps
                 IN  /\ {results[i].experimentID : i \in DOMAIN results}
                            = {e.experimentID : e \in ExpectedExperiments(u)}
                     /\ Len(results) = Cardinality(ExpectedExperiments(u))
                     /\ \A i \in DOMAIN results :
                           \A e \in experiments :
                               e.experimentID = results[i].experimentID
                                   => /\ results[i].name = e.name
                                      /\ results[i].variant = assign_variant(u, e).name]_vars

\* u1 resolved two experiments while a draft experiment is linked to its segment and an active
\* experiment, created before one of the two, is linked to another segment only
C20_Witness ==
    /\ rd["r1"].pc = "gen_mix"
    /\ rd["r1"].mem = MembershipOf(membership, "u1")
    /\ Len(rd["r1"].exps) = 2
    /\ Cardinality(ExpectedExperiments("u1")) = 2
    /\ \E e \in experiments :
          e.status = "draft" /\ TargetSegments(links, e.experimentID) \cap rd["r1"].mem # {}
    /\ \E e \in experiments, i \in DOMAIN rd["r1"].exps :
          /\ e.status = "active" /\ TargetSegments(links, e.experimentID) \cap rd["r1"].mem = {}
          /\ e.experimentID < rd["r1"].exps[i].experimentID
    /\ {rd["r1"].exps[i].experimentID : i \in DOMAIN rd["r1"].exps}
          = {e.experimentID : e \in ExpectedExperiments("u1")}

\* C21: a create_experiment call whose variant weights do not sum to 100 raises the validation
\* error and leaves the experiment rows and the links as they were, whether or not the name is
\* stored already; every stored experiment has weights that sum to 100
C21_BadWeightsWriteNothing ==
    /\ [](\A e \in experiments : SumWeights(e.variants, Len(e.variants)) = 100)
    /\ [][\A a \in Admins, payload \in AdminExperimentPayloads :
             (SumWeights(payload.variants, Len(payload.variants)) # 100 /\ AdminCreateExperiment(a, payload))
                 => /\ adm'[a].raised = "ValueError"
                    /\ experiments' = experiments
                    /\ links' = links]_vars

\* a call with weights 60 + 60 on the stored name weekend_banners and segment 1 was refused, and
\* the stored experiment is linked to segment 2 only
C21_Witness ==
    \E a \in Admins :
        /\ adm[a].pc = "done" /\ adm[a].op = "create_experiment"
        /\ adm[a].raised = "ValueError"
        /\ adm[a].existed
        /\ adm[a].name = "weekend_banners"
        /\ \A e \in experiments : e.name = "weekend_banners" => TargetSegments(links, e.experimentID) = {2}

\* C22: at every time at most one segment is stored per name and no stored segment is changed
\* or removed; a create_segment call on a stored name adds no row and returns the id of the
\* segment stored under that name, also when two calls with one name interleave
C22_OneSegmentPerName ==
    /\ [](\A x, y \in segments : x.name = y.name => x = y)
    /\ [][/\ segments \subseteq segments'
          /\ \A a \in Admins :
                /\ \A payload \in SegmentPayloads :
                      ((\E x \in segments : x.name = payload.name) /\ CreateSegmentInsert(a, payload))
                          => segments' = segments /\ adm'[a].pc = "rollback"
                /\ (adm[a].pc = "rollback" /\ adm'[a].pc = "done")
                      => /\ segments' = segments
                         /\ \E x \in segments : x.name = adm[a].name /\ x.segmentID = adm'[a].response]_vars

\* one call on the seeded name new_user got segment 1 back, whose rules and description are the
\* seeded ones; both callers used the name city_hsr, the second got the first one's segment
C22_Witness ==
    /\ \A a \in Admins : adm[a].pc = "done" /\ adm[a].op = "create_segment" /\ adm[a].existed
    /\ adm["a1"].name = "new_user" /\ adm["a1"].response = 1
    /\ adm["a2"].name = "city_hsr" /\ adm["a2"].response = 3
    /\ SeededSegments \subseteq segments
    /\ Cardinality(segments) = 3

\* C23: a create_experiment call with weights summing to 100 on a stored name returns the id of
\* the stored experiment, leaves the experiment rows (their number, variants and status) as they
\* were and makes the links the previous links united with the given segment ids of that
\* experiment; a repetition of the call therefore changes nothing
C23_ExistingNameRelinks ==
    [][\A a \in Admins, payload \in AdminExperimentPayloads :
          \A e \in experiments :
              (/\ e.name = payload.name
               /\ SumWeights(payload.variants, Len(payload.variants)) = 100
               /\ AdminCreateExperiment(a, payload))
                  => /\ adm'[a].raised = "none"
                     /\ adm'[a].response = e.experimentID
                     /\ experiments' = experiments
                     /\ links' = links \cup {<<e.experimentID, seg_id>> : seg_id \in payload.segmentIDs}
                     /\ (payload.segmentIDs \subseteq TargetSegments(links, e.experimentID) => links' = links)]_vars

\* weekend_banners, created with the variant banners_7_8 on segment 2, was given again with
\* another variant list on segments 1 and 2: same row, same variants, links to both segments
C23_Witness ==
    \E a \in Admins, e \in experiments :
        /\ adm[a].pc = "done" /\ adm[a].op = "create_experiment" /\ adm[a].raised = "none"
        /\ adm[a].existed
        /\ adm[a].name = "weekend_banners" /\ e.name = "weekend_banners"
        /\ adm[a].response = e.experimentID
        /\ e.variants[1].name = "banners_7_8"
        /\ e.status = "active"
        /\ TargetSegments(links, e.experimentID) = {1, 2}
        /\ Cardinality({x \in experiments : x.name = "weekend_banners"}) = 1

\* C24: when a message of u is consumed again and every order its run saw had already been seen
\* by a committed run (no order in between; segments and clock are fixed here), the commit of
\* the repeated run leaves u's membership as the earlier consumption left it
C24_RedeliveryIdempotent ==
    [][(/\ cons.pc = "refresh_commit" /\ cons'.pc = "idle"
        /\ cons.redelivered
        /\ \A i \in OrdersOf(orders, cons.user) : i <= cons.run.seen => i \in covered)
          => MembershipOf(membership', cons.user) = MembershipOf(membership, cons.user)]_vars

\* the only order's message was consumed a second time and u1 is in light_user as before
C24_Witness ==
    /\ cons.pc = "idle" /\ cons.redelivered
    /\ Len(orders) = 1 /\ offset = 1
    /\ covered = {1}
    /\ MembershipOf(membership, "u1") = {2}
    /\ lastMatched["u1"] = {2}

\* C25 as stated: at the step that completes the manual invalidation for u, a dormancy check of u
\* that found no later order, or a successful sweep iteration for u, both cache entries of u
\* are absent
C25_BothAbsentAtCompletion ==
    [][/\ (iv.pc = "invalidate_mix" /\ iv'.pc = "done")
            => (expCache'[iv.user] = Nil /\ mixCache'[iv.user] = Nil)
       /\ \A u \in Users :
            (dj[u].pc = "invalidate_mix" /\ dj'[u].pc = "done")
                => (expCache'[u] = Nil /\ mixCache'[u] = Nil)
       /\ (sw.pc = "invalidate_mix" /\ sw'.pc = "next")
            => (expCache'[sw.user] = Nil /\ mixCache'[sw.user] = Nil)]_vars

\* C25 amended: at the step that completes one of the three operations for u the banner-mixture
\* entry of u is absent, and the experiment entry of u is absent too unless a read for u stored
\* it after the operation's deletion of it
C25_AbsentUnlessReadWroteSince ==
    [][/\ (iv.pc = "invalidate_mix" /\ iv'.pc = "done")
            => (mixCache'[iv.user] = Nil /\ (~iv.expDirty => expCache'[iv.user] = Nil))
       /\ \A u \in Users :
            (dj[u].pc = "invalidate_mix" /\ dj'[u].pc = "done")
                => (dj[u].branch = "dormant" /\ mixCache'[u] = Nil /\ (~dj[u].expDirty => expCache'[u] = Nil))
       /\ (sw.pc = "invalidate_mix" /\ sw'.pc = "next")
            => (mixCache'[sw.user] = Nil /\ (~sw.expDirty => expCache'[sw.user] = Nil))]_vars

\* the three operations have completed for u1 with no write in between, the manual one on a
\* cache that held u1's experiment list
C25_Witness ==
    /\ iv.pc = "done" /\ iv.user = "u1" /\ iv.hadExp /\ ~iv.expDirty
    /\ dj["u1"].pc = "done" /\ dj["u1"].branch = "dormant" /\ ~dj["u1"].expDirty
    /\ sw.pc = "done" /\ sw.user_ids = {"u1"} /\ ~sw.expDirty
    /\ expCache["u1"] = Nil /\ mixCache["u1"] = Nil

\* C26: no cache call of a read made while the cache is unavailable ends the request with a
\* failure; the read goes on as after a miss and still returns the list computed from the store
C26_ReadSurvivesOutage ==
    [][\A r \in Readers :
          (~cacheUp /\ rd'[r] # rd[r]
             /\ rd[r].pc \in {"idle", "done", "hit_mix", "gen_mix", "hit_mix_set", "gen_mix_set", "populate"})
              => rd'[r].source # "error"]_vars

\* C27: a place_order request that has returned status 'placed' has its order's event in the
\* topic; a send that failed or timed out is never followed by that response
C27_PlacedOnlyIfDelivered ==
    \A p \in Placers :
        po[p].pc = "done" => \E i \in DOMAIN topic : topic[i].orderID = po[p].orderID

\* whether the tree holds an internal node whose operator is neither AND nor OR, or a leaf whose
\* op is not a leaf operator
RECURSIVE HasUnrecognizedOperator(_)
HasUnrecognizedOperator(rules) ==
    IF "operator" \in DOMAIN rules
    THEN \/ rules.operator \notin {"AND", "OR"}
         \/ \E i \in DOMAIN rules.conditions : HasUnrecognizedOperator(rules.conditions[i])
    ELSE rules.op \notin {"gt", "gte", "lt", "lte", "eq", "neq", "in", "not_in"}

\* C28: evaluate raises the configuration error (ValueError) for every tree that holds a node
\* with an unrecognized operator, whatever the fact map, also when the fact map lacks the
\* leaf's field
C28_UnrecognizedOperatorRaises ==
    (evalCall # Nil /\ evalCall.latest # Nil /\ HasUnrecognizedOperator(evalCall.rules))
        => evalCall.latest = Some("VE")

\* reference semantics of a leaf whose field is present: the comparison of the fact with the
\* rule's value, false where the two cannot be compared
RefCompare(op, a, b) ==
    IF op \in {"gt", "gte", "lt", "lte"}
    THEN /\ a[1] = b[1] /\ a[1] \in {"n", "s"}
         /\ IF op = "gt" THEN a[2] > b[2] ELSE IF op = "gte" THEN a[2] >= b[2]
            ELSE IF op = "lt" THEN a[2] < b[2] ELSE a[2] <= b[2]
    ELSE IF op = "eq" THEN a = b
    ELSE IF op = "neq" THEN a # b
    ELSE IF op = "in" THEN b[1] = "l" /\ a \in b[2]
    ELSE b[1] = "l" /\ a \notin b[2]

\* reference semantics of a tree with recognized operators
RECURSIVE RefEval(_, _)
RefEval(rules, facts) ==
    IF "operator" \in DOMAIN rules
    THEN IF rules.operator = "AND"
         THEN \A i \in DOMAIN rules.conditions : RefEval(rules.conditions[i], facts)
         ELSE \E i \in DOMAIN rules.conditions : RefEval(rules.conditions[i], facts)
    ELSE /\ rules.field \in DOMAIN facts
         /\ RefCompare(rules.op, facts[rules.field], rules.value)

\* C29: on every tree with recognized operators and every fact map evaluate returns the boolean
\* of the reference semantics (a leaf with an absent field is false, AND is all, OR is any,
\* nested trees compose), and a repeated call returns the same
C29_EvaluateEqualsReference ==
    (evalCall # Nil /\ evalCall.latest # Nil /\ ~HasUnrecognizedOperator(evalCall.rules))
        => /\ evalCall.latest = Some(IF RefEval(evalCall.rules, evalCall.user_stats) THEN "T" ELSE "F")
           /\ evalCall.first = evalCall.latest

\* users with an order older than the sweep's horizon and no order within it
SweepExpected ==
    LET horizon == SWEEP_HORIZON_DAYS * SECONDS_PER_DAY
    IN  {u \in Users :
           /\ \E i \in OrdersOf(orders, u) : now - orders[i].created_at > horizon
           /\ \A i \in OrdersOf(orders, u) : ~(now - orders[i].created_at <= horizon)}

\* C30: a run of the sweep selects exactly the users with an order older than the 14-day
\* horizon and none within it, takes each selected user once, and for each of them commits a
\* resolver run for the user's current facts, then deletes the user's experiment entry, then
\* the user's mixture entry
C30_SweepSelectsAndRefreshes ==
    [][/\ (sw.pc \in {"idle", "done"} /\ sw'.pc = "next")
            => (sw'.user_ids = SweepExpected /\ sw'.todo = sw'.user_ids)
       /\ (sw.pc = "next" /\ sw'.pc = "refresh_begin")
            => (sw'.user \in sw.todo /\ sw'.todo = sw.todo \ {sw'.user} /\ sw'.user_ids = sw.user_ids)
       /\ (sw.pc = "next" /\ sw'.pc = "done") => sw.todo = {}
       /\ (sw.pc = "refresh_begin" /\ sw'.pc # "refresh_begin")
            => (sw'.pc = "refresh_commit" /\ sw'.run.matched = SegmentsMatching(sw'.run.stats))
       /\ (sw.pc = "refresh_commit" /\ sw'.pc # "refresh_commit")
            => (sw'.pc = "invalidate_exp" /\ MembershipOf(membership', sw.user) = sw.run.matched)
       /\ (sw.pc = "invalidate_exp" /\ sw'.pc # "invalidate_exp")
            => (sw'.pc = "invalidate_mix" /\ expCache'[sw.user] = Nil /\ membership' = membership)
       /\ (sw.pc = "invalidate_mix" /\ sw'.pc # "invalidate_mix")
            => (sw'.pc = "next" /\ mixCache'[sw.user] = Nil /\ membership' = membership)]_vars

\* a run has ended that selected u1, whose only order is older than the horizon, and left out
\* u2, whose only order is within it; u1 was resolved into the segments of its facts
C30_Witness ==
    /\ sw.pc = "done" /\ sw.user_ids = {"u1"}
    /\ OrdersOf(orders, "u2") # {} /\ OrdersOf(orders, "u1") # {}
    /\ sw.todo = {} /\ MembershipOf(membership, "u1") # {} /\ SweepExpected = {"u1"}

\* C31: the consumer loop never stops, whatever the event it received, and a failure in one
\* iteration of the sweep only ends that iteration: the users still to do stay to do, and the
\* run ends only when every selected user was taken
C31_FailuresDoNotStopTheOthers ==
    /\ [](cons.pc # "crashed")
    /\ [][/\ (cons.pc = "refresh_begin" /\ cons'.pc # "refresh_begin")
               => cons'.pc \in {"refresh_commit", "idle"}
          /\ (sw.pc \in {"refresh_begin", "invalidate_exp", "invalidate_mix"} /\ sw'.pc = "next")
               => sw'.todo = sw.todo
          /\ (sw.pc = "next" /\ sw'.pc = "done") => sw.todo = {}]_vars

(***************************************************************************)
(* SpecFacts: the consumer, the sweep and reads on a store that also holds *)
(* the segments of output/setup.py ruled by the time since the last order. *)
(* u1's order is older than the sweep's horizon, u2's was just placed.     *)
(***************************************************************************)
InitFacts ==
    LET os == << Placed("u1", 0), Placed("u2", SweepNow) >>
        recently_active_user ==
            [segmentID |-> 3, name |-> "recently_active_user",
             description |-> "User who has placed at least 1 order in the past 7 days",
             rules |-> Node("AND", <<Leaf("days_since_last_order", "lt", Num(7))>>)]
        dormant_user ==
            [segmentID |-> 4, name |-> "dormant_user",
             description |-> "User who has not placed an order in the past 14 days",
             rules |-> Node("AND", <<Leaf("days_since_last_order", "gte", Num(14))>>)]
    IN  /\ InitAt(SeededSegments \cup {recently_active_user, dormant_user}, SeededExperiments, SeededLinks, os,
                  [i \in DOMAIN os |-> [user_id |-> os[i].user_id, orderID |-> i]],
                  LedgerJobs(os, Len(os)), SweepNow)
        /\ assignCall = Nil
        /\ evalCall = Nil

SpecFacts == InitFacts /\ [][Read("r1", Users) \/ Consume \/ Sweep]_vars

\* the fields the conditions of a flat rule tree refer to
ReferencedFields(rules) == {rules.conditions[i].field : i \in DOMAIN rules.conditions}

\* the fact map of a resolver run for a user who has orders holds every field a stored rule refers to
FactsCoverRules(user_id, run) ==
    OrdersOf(orders, user_id) # {}
        => \A s \in segments : ReferencedFields(s.rules) \subseteq DOMAIN run.stats

\* C32: when a resolver run commits for a user with orders, every fact field referenced by a
\* stored segment rule is a key of the fact map the run evaluated, and a user whose last order
\* is less than 7 days old is stored as a member of recently_active_user
C32_ReferencedFactsProduced ==
    [][/\ \A r \in Readers : (rd[r].pc = "refresh_commit" /\ rd'[r].pc # "refresh_commit")
                                => FactsCoverRules(rd[r].user, rd[r].run)
       /\ (cons.pc = "refresh_commit" /\ cons'.pc # "refresh_commit")
            => /\ FactsCoverRules(cons.user, cons.run)
               /\ (now - MaxCreatedAt(orders, OrdersOf(orders, cons.user)) < 7 * SECONDS_PER_DAY)
                    => <<cons.user, 3>> \in membership'
       /\ (sw.pc = "refresh_commit" /\ sw'.pc # "refresh_commit")
            => FactsCoverRules(sw.user, sw.run)]_vars

(***************************************************************************)
(* SpecStale: reads of both users against the dormancy check of u1's order *)
(* and the sweep, from the state in which u1 was read as a new user, then  *)
(* placed an order at time 0 whose event the consumer has not taken, and   *)
(* the sweep's horizon has passed: the stored membership is still new_user *)
(***************************************************************************)
InitStale ==
    LET os == <<Placed("u1", 0)>>
    IN  /\ now = SweepNow
        /\ clockMoves = 0
        /\ orders = os
        /\ segments = SeededSegments
        /\ experiments = SeededExperiments
        /\ links = SeededLinks
        /\ membership = {<<"u1", 1>>}
        /\ expCache = [u \in Users |-> Nil]
        /\ mixCache = [u \in Users |-> Nil]
        /\ topic = <<[user_id |-> "u1", orderID |-> 1]>>
        /\ offset = 0
        /\ jobs = LedgerJobs(os, Len(os))
        /\ rd = [r \in Readers |-> IdleReader]
        /\ po = [p \in Placers |-> IdlePlacer]
        /\ cons = IdleConsumer
        /\ dj = [u \in Users |-> IdleJob]
        /\ cacheMem = [u \in Users |-> {}]
        /\ cacheOld = [u \in Users |-> FALSE]
        /\ lastMatched = [u \in Users |-> IF u = "u1" THEN {1} ELSE {}]
        /\ covered = {}
        /\ rivals = [u \in Users |-> {}]
        /\ resolved = {"u1"}
        /\ assignCall = Nil
        /\ evalCall = Nil
        /\ adm = [a \in Admins |-> IdleAdmin]
        /\ iv = IdleInvalidation
        /\ sw = IdleSweep
        /\ cacheUp = TRUE

SpecStale == InitStale /\ [][Read("r1", Users) \/ Dormancy("u1") \/ Sweep]_vars

\* C33: once no read of u is in progress and a trigger that changes membership (a dormancy
\* check of u in its dormant branch, or a sweep that selected u) has completed, an experiment
\* list cached for u is the list resolved from u's stored membership
C33_CacheFollowsTrigger ==
    \A u \in Users :
        (/\ \A r \in Readers : rd[r].user = u => rd[r].pc \in {"idle", "done"}
         /\ dj[u].pc \in {"idle", "done"}
         /\ sw.pc \in {"idle", "done"}
         /\ \/ dj[u].pc = "done" /\ dj[u].branch = "dormant"
            \/ sw.pc = "done" /\ u \in sw.user_ids
         /\ expCache[u] # Nil)
            => expCache[u][1].value = get_user_experiments(u, membership, experiments, links)

(***************************************************************************)
(* SpecIsolation: every operation, for either user, served one at a time   *)
(* on the state after u1's order at time 0, once the sweep's horizon has   *)
(* passed                                                                  *)
(***************************************************************************)
\* the requests, jobs and runs that have started and not returned
InFlight ==
    {<<"rd", r>> : r \in {x \in Readers : rd[x].pc \notin {"idle", "done"}}}
    \cup {<<"po", p>> : p \in {x \in Placers : po[x].pc \notin {"idle", "done"}}}
    \cup {<<"dj", u>> : u \in {x \in Users : dj[x].pc \notin {"idle", "done"}}}
    \cup (IF cons.pc # "idle" THEN {<<"cons", "c">>} ELSE {})
    \cup (IF iv.pc \notin {"idle", "done"} THEN {<<"iv", "i">>} ELSE {})
    \cup (IF sw.pc \notin {"idle", "done"} THEN {<<"sw", "s">>} ELSE {})

SpecIsolation ==
    /\ InitAged
    /\ [][\/ InFlight \subseteq {<<"rd", "r1">>} /\ Read("r1", Users)
          \/ InFlight \subseteq {<<"po", "p1">>} /\ PlaceOrderProd("p1", Users)
          \/ InFlight \subseteq {<<"po", "p1">>} /\ PlaceOrderStepsDelivered("p1")
          \/ InFlight \subseteq {<<"cons", "c">>} /\ Consume
          \/ \E u \in Users : InFlight \subseteq {<<"dj", u>>} /\ Dormancy(u)
          \/ InFlight = {} /\ \E u \in Users : InvalidateUserCache(u)
          \/ InFlight \subseteq {<<"iv", "i">>} /\ InvalidateBannerMixture
          \/ InFlight \subseteq {<<"sw", "s">>} /\ Sweep]_vars

\* the membership rows, the two cache entries and the pending job of v are left as they are
Untouched(v) ==
    /\ MembershipOf(membership', v) = MembershipOf(membership, v)
    /\ expCache'[v] = expCache[v]
    /\ mixCache'[v] = mixCache[v]
    /\ {j \in jobs' : j.id = JobId(v)} = {j \in jobs : j.id = JobId(v)}

\* C34: a step of a read, a place-order request, the consumer, a dormancy check, the manual
\* invalidation or a sweep iteration that works for user u leaves the membership rows, both
\* cache entries and the pending dormancy job of every other user as they were
C34_OtherUsersUntouched ==
    [][\A v \in Users :
          /\ \A r \in Readers : (rd'[r] # rd[r] /\ rd'[r].user # v) => Untouched(v)
          /\ \A p \in Placers : (po'[p] # po[p] /\ po'[p].user # v) => Untouched(v)
          /\ (cons' # cons /\ cons'.user # v) => Untouched(v)
          /\ \A u \in Users : (dj'[u] # dj[u] /\ u # v) => Untouched(v)
          /\ (iv' # iv /\ iv'.user # v) => Untouched(v)
          /\ (sw' # sw /\ sw'.user # v) => Untouched(v)]_vars

\* every operation has run for u1 while u2 had membership rows, both cache entries and a
\* pending job
C34_Witness ==
    /\ MembershipOf(membership, "u2") # {} /\ expCache["u2"] # Nil /\ mixCache["u2"] # Nil
    /\ \E j \in jobs : j.id = JobId("u2")
    /\ rd["r1"].pc = "done" /\ rd["r1"].user = "u1"
    /\ offset = Len(topic) /\ resolved = Users
    /\ dj["u1"].pc = "done" /\ dj["u1"].branch = "dormant"
    /\ iv.pc = "done" /\ iv.user = "u1"
    /\ sw.pc = "done" /\ sw.user_ids = {"u1"}

(***************************************************************************)
(* SpecDormancy: the dormancy check of u1's order of time 0 against reads  *)
(* of u1 and a cache server that goes down and comes back.  A later order  *)
(* of u1 may be stored while the job of the first one is still pending     *)
(* (its request has not reached add_job), and the store may hold a segment *)
(* whose rule makes the resolver raise for u1.                             *)
(***************************************************************************)
InitDormancy ==
    LET metro == [segmentID |-> 3, name |-> "metro", description |-> "User in a metro city",
                  rules |-> Node("AND", <<Leaf("city", "between", CityHSR)>>)]
    IN  /\ \E os \in { <<Placed("u1", 0)>>, <<Placed("u1", 0), Placed("u1", 1)>> },
              segs \in {SeededSegments, SeededSegments \cup {metro}} :
              InitAt(segs, SeededExperiments, SeededLinks, os,
                     [i \in DOMAIN os |-> [user_id |-> os[i].user_id, orderID |-> i]],
                     LedgerJobs(os, 1), SweepNow)
        /\ assignCall = Nil
        /\ evalCall = Nil

SpecDormancy ==
    /\ InitDormancy
    /\ [][\/ Read("r1", {"u1"})
          \/ ReadCacheCheckFails("r1", "u1")
          \/ ReadCacheCallFails("r1")
          \/ Dormancy("u1")
          \/ DormancyInvalidateFails("u1")
          \/ CacheOutage]_vars

\* C35: a dormancy check that ended in its no-op branch or with an error has changed neither
\* the user's membership rows nor a cache entry of the user, and no step of a check changes
\* the order ledger or the pending jobs, but for the check's own job, taken out when it fires
C35_NoOpAndErrorChangeNothing ==
    /\ [](\A u \in Users : (dj[u].pc = "done" /\ dj[u].branch \in {"active", "error"}) => ~dj[u].wrote)
    /\ [][\A u \in Users :
             dj'[u].pc # dj[u].pc
                => /\ orders' = orders
                   /\ jobs' \subseteq jobs
                   /\ \A j \in jobs \ jobs' : j.id = JobId(u) /\ dj'[u].pc = "check"]_vars

====
